---- MODULE Spec2Model ----
(***************************************************************************)
(* Model of the news-feed system: the periodic scheduler                   *)
(* (schedulerService), the post write path (postService.CreatePost over    *)
(* postRepository.CreatePost and the UNIQUE(url) constraint of the posts   *)
(* table) and the fan-out aggregator (aggregatorService).                  *)
(*                                                                         *)
(* The specifications of the module:                                       *)
(*   SpecSched  the scheduler and its executor loops                       *)
(*   FairSched  the same under fair scheduling                             *)
(*   SpecStatus the scheduler with a caller of GetJobStatus                *)
(*   SpecReentrant the scheduler with tasks that call back into it        *)
(*   SpecStore  concurrent postService.CreatePost calls                    *)
(*   SpecRepo   concurrent postRepository calls over table and cache       *)
(*   SpecRepoSeq  postRepository calls one at a time                       *)
(*   SpecDelete concurrent postService.DeletePost calls                    *)
(*   SpecAgg    one aggregation run over the post store                    *)
(*   SpecFan    the fan-out of one aggregation run over its semaphore      *)
(*   SpecRestart  the scheduler from a Stop onwards                        *)
(*   SpecUnchecked  the scheduler when AddJob gets any interval and task   *)
(*   SpecJob    one execution of a job of SetupAggregationJobs             *)
(*   SpecBatch  one call of processSourceNews                              *)
(*   SpecLanes  two aggregation runs that overlap                          *)
(*   SpecProject the projection of one upstream article and its create    *)
(*   SpecClock  one scheduled job on the time line                         *)
(***************************************************************************)
EXTENDS Integers, Sequences, FiniteSets, TLC

\* ------------------------------------------------------------------ bounds
\* scheduledJob objects ever allocated by AddJob in one behaviour
MaxJobs == 2
\* executions started by all executor loops together in one behaviour
MaxRuns == 2
\* concurrent callers of postService.CreatePost
MaxClients == 2
\* CreatePost calls issued per caller
MaxCalls == 1
\* categories a caller passes to AggregateByCategories
MaxUnits == 2
\* articles returned by upstream over one aggregation run
MaxFetched == 2
\* sources a caller passes to AggregateBySources
MaxSources == 4
\* articles returned by upstream over the run of SpecFan
FanFetched == 1
\* posts ever created in the repository in one behaviour
MaxPosts == 1
\* statements the callers of the repository send in one behaviour
MaxRepoCalls == 4
\* the clock of the time line stops here
MaxBatchArticles == 2
MaxTriggered == 2
MaxClock == 6

\* ------------------------------------------------------- program constants
\* aggregatorService.maxWorkers
maxWorkers == 5
\* batchSize of aggregateBySources
batchSize == 3

Names == {"j", "k"}
\* the name of the first job a behaviour registers (the names are
\* interchangeable)
FirstName == "j"
JobIds == 1..MaxJobs
Urls == {"u1", "u2"}
Clients == 1..MaxClients

VARIABLES
    \* ---- schedulerService
    jobs,       \* s.jobs: name -> scheduledJob object id (0: no entry)
    sjob,       \* the scheduledJob objects, by id
    nextJob,    \* next object id AddJob allocates
    running,    \* s.running
    ctxDone,    \* s.ctx is cancelled
    wg,         \* s.wg counter
    mu,         \* s.mu: "free", or "stop" while Stop holds it in wg.Wait()
    stopSaw,    \* Stop took the lock while a task was executing (observer)
    status,     \* the map a caller got from its last GetJobStatus call
    schedErr    \* the error the last Start or Stop call returned

VARIABLES
    \* ---- posts table and the callers of the post service
    posts,      \* rows of the posts table: [id, url]
    nextId,     \* next value of the id sequence
    client      \* callers of postService: position and result of their call

VARIABLES
    \* ---- one aggregation run of aggregatorService
    aggPc,      \* the calling goroutine: "idle", "wait" (in wg.Wait), "returned"
    aggOp,      \* the public operation that was called
    aggUnits,   \* the units dispatched: categories, or batches of sources
    aggCtx,     \* the context of the run is cancelled
    semaphore,  \* number of elements in the semaphore channel
    aggWg,      \* counter of the run's sync.WaitGroup
    aggMu,      \* holder of the run's sync.Mutex (0: unlocked)
    result,     \* the shared *model.AggregationResponse
    ret,        \* what the public operation returned
    unit,       \* the worker goroutines, one per unit
    budget      \* articles upstream may still return in this behaviour

VARIABLES
    \* ---- postRepository over the posts table and the Redis cache
    postsById,  \* the posts table, by id: the row, or NoRow
    redis,      \* the cache, by id: the value under "post:id:{id}", or NoRow
    dbNow,      \* the clock of the database
    nextPost,   \* next value of the id sequence
    repoCall,   \* callers of postRepository: position and result of their call
    deleted,    \* ids for which a DeletePost call has returned nil
    redisList,  \* the cache, by page: the value under "posts:list:{page}:{limit}"
    redisCount, \* the cache: the value under "posts:count"
    unread,     \* by cache key: what the last mutation left for its next read
    last        \* the call that began last, and its caller

VARIABLES
    \* ---- NewsAPIArticleParams.ToPost and the create that follows it
    proj,       \* one upstream article: position, the article, what became of it
    \* ---- one scheduledJob on the time line
    clock,      \* time.Now()
    tjob        \* the job: its ticker, its executor loop and its status times

VARIABLES
    \* ---- one call of processSourceNews
    srcRun,     \* position, the batch, response.Articles, the counters
    \* ---- aggregation runs of one aggregatorService that overlap
    lane        \* by caller: position, the run's semaphore, its workers

schedVars == <<jobs, sjob, nextJob, running, ctxDone, wg, mu, stopSaw, status, schedErr>>
storeVars == <<posts, nextId, client>>
aggVars == <<aggPc, aggOp, aggUnits, aggCtx, semaphore, aggWg, aggMu, result,
             ret, unit, budget>>

repoVars == <<postsById, redis, dbNow, nextPost, repoCall, deleted, redisList,
              redisCount, unread, last>>

projVars == <<proj>>
clockVars == <<clock, tjob>>
batchVars == <<srcRun>>
laneVars == <<lane>>

vars == <<schedVars, storeVars, aggVars, repoVars, projVars, clockVars, batchVars, laneVars>>

\* ================================================================== errors
\* An error value is the chain of messages that fmt.Errorf("...: %w") builds,
\* outermost first; the nil error is the empty chain.
NilErr == <<>>
ErrPostExists == <<"post with this URL already exists">>
ErrPostIDInvalid == <<"post ID is invalid">>
ErrPostNotFound == <<"post not found">>
ErrNoRows == <<"no rows in result set">>
ErrUniqueViolation == <<"duplicate key value violates unique constraint">>
ErrDB == <<"database error">>

\* fmt.Errorf(msg + ": %w", err)
Wrap(msg, err) == <<msg>> \o err

\* errors.Is(err, target) for a sentinel target
errorsIs(err, target) ==
    \E i \in 1..Len(err) : SubSeq(err, i, Len(err)) = target

\* ============================================================== posts table
UrlHeld(rows, url) == \E r \in rows : r.url = url

\* an INSERT that ignores the UNIQUE constraint on url
DbInsert_NoUnique(rows, url, id) ==
    [rows |-> rows \cup {[id |-> id, url |-> url]}, id |-> id, err |-> NilErr]

\* INSERT INTO posts ... RETURNING id under the UNIQUE constraint on url
DbInsert(rows, url, id) ==
    IF UrlHeld(rows, url)
    THEN [rows |-> rows, id |-> 0, err |-> ErrUniqueViolation]
    ELSE [rows |-> rows \cup {[id |-> id, url |-> url]}, id |-> id, err |-> NilErr]

\* postRepository.CreatePost; fail: the statement fails in the infrastructure
RepoCreatePost(rows, url, id, fail) ==
    LET ins == IF fail THEN [rows |-> rows, id |-> 0, err |-> ErrDB]
               ELSE DbInsert(rows, url, id)
    IN  IF ins.err # NilErr
        THEN [ins EXCEPT !.err = Wrap("failed to create post", ins.err)]
        ELSE ins

\* postRepository.GetPostByURL: the error it returns (nil: a row was found)
GetPostByURL(rows, url, fail) ==
    IF fail THEN Wrap("failed to get post by url", ErrDB)
    ELSE IF UrlHeld(rows, url) THEN NilErr
    ELSE Wrap("failed to get post by url", ErrNoRows)

\* ============================================================== postService
\* PostExists: (false, nil) only for pgx.ErrNoRows, (true, nil) otherwise
PostExists(lookupErr) ==
    IF lookupErr # NilErr /\ errorsIs(lookupErr, ErrNoRows)
    THEN [exists |-> FALSE, err |-> NilErr]
    ELSE [exists |-> TRUE, err |-> NilErr]

\* CreatePost after PostExists: the early returns (done) or go on to insert
CreatePostChecked(pe) ==
    IF pe.err # NilErr
    THEN [done |-> TRUE, post |-> 0, err |-> Wrap("Failed to check post existence", pe.err)]
    ELSE IF pe.exists
    THEN [done |-> TRUE, post |-> 0, err |-> ErrPostExists]
    ELSE [done |-> FALSE, post |-> 0, err |-> NilErr]

\* CreatePost after repo.CreatePost
CreatePostInserted(ins) ==
    IF ins.err # NilErr
    THEN [post |-> 0, err |-> Wrap("Failed to create post service", ins.err)]
    ELSE [post |-> ins.id, err |-> NilErr]

\* CreatePostFromNewsAPI after PostExists: an existing url is skipped with
\* (nil, nil), and so is a failed lookup, which PostExists reports as existing
CreatePostFromNewsAPIChecked(pe) ==
    IF pe.exists
    THEN [done |-> TRUE, post |-> 0, err |-> NilErr]
    ELSE [done |-> FALSE, post |-> 0, err |-> NilErr]

\* CreatePostFromNewsAPI after repo.CreatePost
CreatePostFromNewsAPIInserted(ins) ==
    IF ins.err # NilErr
    THEN [post |-> 0, err |-> Wrap("failed to create post from NewsAPI", ins.err)]
    ELSE [post |-> ins.id, err |-> NilErr]

Methods == {"CreatePost", "CreatePostFromNewsAPI"}

Checked(method, pe) ==
    IF method = "CreatePost" THEN CreatePostChecked(pe)
    ELSE CreatePostFromNewsAPIChecked(pe)

Inserted(method, ins) ==
    IF method = "CreatePost" THEN CreatePostInserted(ins)
    ELSE CreatePostFromNewsAPIInserted(ins)

\* a caller that is not inside a call (held: a stored post held the url at
\* the step that decided the call; inserted: the call added a row; infra:
\* the url lookup of the call failed in the infrastructure)
IdleClient == [pc |-> "idle", method |-> "", url |-> "", post |-> 0,
               err |-> NilErr, held |-> FALSE, inserted |-> FALSE, calls |-> 0,
               infra |-> FALSE]

StoreIdle ==
    /\ posts = {}
    /\ nextId = 1
    /\ client = [c \in Clients |-> IdleClient]

StoreInit == StoreIdle

\* a caller enters CreatePost or CreatePostFromNewsAPI
Call(c, method, url) ==
    /\ client[c].pc = "idle"
    /\ client[c].calls < MaxCalls
    /\ client' = [client EXCEPT ![c] =
                    [IdleClient EXCEPT !.pc = "exists", !.method = method,
                                       !.url = url, !.calls = client[c].calls + 1]]
    /\ UNCHANGED <<posts, nextId, schedVars, repoVars, aggVars, projVars, clockVars, batchVars, laneVars>>

\* s.PostExists(ctx, url) and the branches on its result
CheckExists(c) ==
    /\ client[c].pc = "exists"
    /\ \E fail \in BOOLEAN :
         LET r == Checked(client[c].method,
                          PostExists(GetPostByURL(posts, client[c].url, fail)))
         IN  client' = [client EXCEPT ![c] =
                 IF r.done
                 THEN [@ EXCEPT !.pc = "idle", !.post = r.post, !.err = r.err,
                                !.held = UrlHeld(posts, client[c].url),
                                !.infra = fail]
                 ELSE [@ EXCEPT !.pc = "insert"]]
    /\ UNCHANGED <<posts, nextId, schedVars, repoVars, aggVars, projVars, clockVars, batchVars, laneVars>>

\* s.repo.CreatePost(ctx, req) and the return
Insert(c) ==
    /\ client[c].pc = "insert"
    /\ \E fail \in BOOLEAN :
         LET ins == RepoCreatePost(posts, client[c].url, nextId, fail)
             r == Inserted(client[c].method, ins)
         IN  /\ posts' = ins.rows
             /\ nextId' = IF ins.err = NilErr THEN nextId + 1 ELSE nextId
             /\ client' = [client EXCEPT ![c] =
                    [@ EXCEPT !.pc = "idle", !.post = r.post, !.err = r.err,
                              !.held = UrlHeld(posts, client[c].url),
                              !.inserted = (ins.rows # posts)]]
    /\ UNCHANGED <<schedVars, repoVars, aggVars, projVars, clockVars, batchVars, laneVars>>

StoreNext ==
    \/ \E c \in Clients, m \in Methods, u \in Urls : Call(c, m, u)
    \/ \E c \in Clients : CheckExists(c)
    \/ \E c \in Clients : Insert(c)

\* ============================================================ postRepository

PostIds == 1..MaxPosts
Patches == {"patch1", "patch2"}
\* pages an unfiltered ListPosts is called with; the limit of these calls is
\* at least the number of posts, so page 1 holds every row and page 2 none
Pages == {1, 2}

\* no row of the posts table, no value under a cache key
NoRow == [id |-> 0, title |-> "", description |-> "", content |-> "",
          category |-> "", image_url |-> "", url |-> "", source |-> "",
          published_at |-> 0, created_at |-> 0, updated_at |-> 0]

\* no value under a "posts:list:{page}:{limit}" key, under "posts:count"
NoList == [has |-> FALSE, rows |-> {}]
NoCount == [has |-> FALSE, n |-> 0]

\* INSERT INTO posts ... RETURNING: the row of a new post (created_at and
\* updated_at are set by the store to the time of the statement)
InsertedRow(id, now) ==
    [id |-> id, title |-> "title", description |-> "description",
     content |-> "content", category |-> "category", image_url |-> "image_url",
     url |-> "url", source |-> "source", published_at |-> 1,
     created_at |-> now, updated_at |-> now]

\* UPDATE posts SET title = $2, description = $3, content = $4,
\* category = $5, image_url = $6, updated_at = NOW() WHERE id = $1
\* (now: NOW(), the time at which the statement's transaction began)
UpdatedRow(row, patch, now) ==
    [row EXCEPT !.title = patch, !.description = patch, !.content = patch,
                !.category = patch, !.image_url = patch, !.updated_at = now]

\* SELECT ... FROM posts ORDER BY published_at DESC LIMIT $1 OFFSET $2
ListPage(table, page) ==
    IF page = 1 THEN {table[i] : i \in {j \in PostIds : table[j] # NoRow}} ELSE {}

\* SELECT COUNT(*) FROM posts
CountRows(table) == Cardinality({i \in PostIds : table[i] # NoRow})

\* r.redis.Del(ctx, "post:id:{id}").Err(): the result is dropped, so a
\* failed delete (ok = FALSE) leaves the key
redisDel(cache, id, ok) ==
    IF ok THEN [cache EXCEPT ![id] = NoRow] ELSE cache

\* a key that leaves the page out
cacheKey_NoPage(page) == 1

\* cacheKey := fmt.Sprintf("posts:list:%d:%d", params.Page, params.Limit)
cacheKey(page) == page

\* invalidateListCaches: r.redis.Keys(ctx, "posts:list:*") and Del of the
\* keys found; nothing is deleted when either fails
listDel(cache, ok) ==
    IF ok THEN [p \in Pages |-> NoList] ELSE cache

\* invalidateListCaches: r.redis.Del(ctx, "posts:count")
countDel(cache, ok) == IF ok THEN NoCount ELSE cache

\* a caller that is not inside a call (now: NOW() of its statement; visible:
\* the row was in the snapshot of its statement; after: the call began after
\* a DeletePost of the same id had returned nil; rows, count: what ListPosts
\* and CountPosts return; truth: what the table held when the call returned;
\* first: the call is the first read of its key since a mutation returned,
\* whose cache delete "cleared" the key or "kept" it; repeat: the call
\* before it was a ListPosts of the same page, which returned prev; cached:
\* the key was in the cache when the call began; clean: no mutation was in
\* flight when the call began and none has begun since)
IdleCall == [pc |-> "idle", method |-> "", id |-> 0, patch |-> "", now |-> 0,
             visible |-> FALSE, post |-> NoRow, err |-> NilErr, after |-> FALSE,
             page |-> 0, rows |-> {}, count |-> 0, truth |-> {}, truthN |-> 0,
             first |-> "no", repeat |-> FALSE, prev |-> {}, cached |-> FALSE,
             clean |-> FALSE]

\* no key has been left unread by a mutation
AllRead == [list |-> [p \in Pages |-> "no"], count |-> "no"]

RepoIdle ==
    /\ postsById = [i \in PostIds |-> NoRow]
    /\ redis = [i \in PostIds |-> NoRow]
    /\ redisList = [p \in Pages |-> NoList]
    /\ redisCount = NoCount
    /\ dbNow = 0
    /\ nextPost = 1
    /\ repoCall = [c \in Clients |-> IdleCall]
    /\ deleted = {}
    /\ unread = AllRead
    /\ last = [method |-> "", page |-> 0, c |-> 1]

\* statements sent so far are counted by the clock of the database
CallsLeft == dbNow < MaxRepoCalls

Resting(c) == repoCall[c].pc \in {"idle", "done"}

\* a CreatePost, UpdatePost or DeletePost is between its statement and the
\* end of its cache deletes
MutationInFlight == \E c \in Clients : repoCall[c].pc \in {"upd_db", "upd_inv", "del_inv"}

\* the records of the callers once a mutation has begun
Disturbed(calls) == [c \in Clients |-> [calls[c] EXCEPT !.clean = FALSE]]

\* the keys a mutation leaves for the next reads, by what its deletes did
LeftUnread(listCache, countCache) ==
    [list |-> [p \in Pages |-> IF listCache[p].has THEN "kept" ELSE "cleared"],
     count |-> IF countCache.has THEN "kept" ELSE "cleared"]

\* CreatePost: one INSERT, then invalidateListCaches
RepoCreate ==
    /\ nextPost <= MaxPosts
    /\ CallsLeft
    /\ postsById' = [postsById EXCEPT ![nextPost] = InsertedRow(nextPost, dbNow + 1)]
    /\ dbNow' = dbNow + 1
    /\ nextPost' = nextPost + 1
    /\ \E okList \in BOOLEAN, okCount \in BOOLEAN :
         /\ redisList' = listDel(redisList, okList)
         /\ redisCount' = countDel(redisCount, okCount)
    /\ unread' = LeftUnread(redisList', redisCount')
    /\ last' = [method |-> "CreatePost", page |-> 0, c |-> 1]
    /\ repoCall' = Disturbed(repoCall)
    /\ UNCHANGED <<redis, deleted, schedVars, storeVars, aggVars, projVars, clockVars, batchVars, laneVars>>

\* GetPostByID up to the cache lookup: a hit returns the cached post
GetPostByIDCall(c, id) ==
    /\ Resting(c)
    /\ CallsLeft
    /\ repoCall' = [repoCall EXCEPT ![c] =
          IF redis[id] # NoRow
          THEN [IdleCall EXCEPT !.pc = "done", !.method = "GetPostByID", !.id = id,
                                !.post = redis[id], !.after = (id \in deleted),
                                !.clean = ~MutationInFlight]
          ELSE [IdleCall EXCEPT !.pc = "get_db", !.method = "GetPostByID", !.id = id,
                                !.after = (id \in deleted),
                                !.clean = ~MutationInFlight]]
    /\ dbNow' = dbNow + 1
    /\ last' = [method |-> "GetPostByID", page |-> 0, c |-> c]
    /\ UNCHANGED <<postsById, redis, redisList, redisCount, nextPost, deleted,
                   unread, schedVars, storeVars, aggVars,
                   projVars, clockVars, batchVars, laneVars>>

\* GetPostByID, the SELECT: no row returns "failed to get post by id"
GetPostByIDSelect(c) ==
    /\ repoCall[c].pc = "get_db"
    /\ repoCall' = [repoCall EXCEPT ![c] =
          IF postsById[repoCall[c].id] = NoRow
          THEN [@ EXCEPT !.pc = "done",
                         !.err = Wrap("failed to get post by id", ErrNoRows)]
          ELSE [@ EXCEPT !.pc = "get_set", !.post = postsById[repoCall[c].id]]]
    /\ UNCHANGED <<postsById, redis, redisList, redisCount, dbNow, nextPost,
                   deleted, unread, last, schedVars, storeVars, aggVars,
                   projVars, clockVars, batchVars, laneVars>>

\* GetPostByID, r.redis.Set(ctx, cacheKey, postJson, r.cacheTTL) and return
\* (json.Marshal and json.Unmarshal of a model.Post keep every field)
GetPostByIDSet(c) ==
    /\ repoCall[c].pc = "get_set"
    /\ \E ok \in BOOLEAN :
         redis' = IF ok THEN [redis EXCEPT ![repoCall[c].id] = repoCall[c].post]
                  ELSE redis
    /\ repoCall' = [repoCall EXCEPT ![c].pc = "done"]
    /\ UNCHANGED <<postsById, redisList, redisCount, dbNow, nextPost, deleted,
                   unread, last, schedVars, storeVars, aggVars,
                   projVars, clockVars, batchVars, laneVars>>

\* the TTL of a "post:id:{id}" key runs out
Expire(id) ==
    /\ redis[id] # NoRow
    /\ redis' = [redis EXCEPT ![id] = NoRow]
    /\ UNCHANGED <<postsById, redisList, redisCount, dbNow, nextPost, repoCall,
                   deleted, unread, last, schedVars, storeVars, aggVars,
                   projVars, clockVars, batchVars, laneVars>>

\* the TTL of a "posts:list:{page}:{limit}" key or of "posts:count" runs out
ExpireList ==
    /\ \/ \E p \in Pages : /\ redisList[p].has
                           /\ redisList' = [redisList EXCEPT ![p] = NoList]
                           /\ UNCHANGED redisCount
       \/ /\ redisCount.has
          /\ redisCount' = NoCount
          /\ UNCHANGED redisList
    /\ UNCHANGED <<postsById, redis, dbNow, nextPost, repoCall, deleted, unread,
                   last, schedVars, storeVars, aggVars,
                   projVars, clockVars, batchVars, laneVars>>

\* ListPosts, the unfiltered branch up to the cache lookup: a hit returns
\* the cached page
ListPostsCall(c, page) ==
    /\ Resting(c)
    /\ CallsLeft
    /\ LET begun == [IdleCall EXCEPT
                        !.method = "ListPosts", !.page = page,
                        !.first = unread.list[page],
                        !.repeat = (last.method = "ListPosts" /\ last.page = page),
                        !.prev = repoCall[last.c].rows,
                        !.cached = redisList[cacheKey(page)].has,
                        !.clean = ~MutationInFlight]
       IN  repoCall' = [repoCall EXCEPT ![c] =
              IF redisList[cacheKey(page)].has
              THEN [begun EXCEPT !.pc = "done", !.rows = redisList[cacheKey(page)].rows,
                                 !.truth = ListPage(postsById, page)]
              ELSE [begun EXCEPT !.pc = "list_db"]]
    /\ dbNow' = dbNow + 1
    /\ unread' = [unread EXCEPT !.list[page] = "no"]
    /\ last' = [method |-> "ListPosts", page |-> page, c |-> c]
    /\ UNCHANGED <<postsById, redis, redisList, redisCount, nextPost, deleted,
                   schedVars, storeVars, aggVars,
                   projVars, clockVars, batchVars, laneVars>>

\* ListPosts, the SELECT
ListPostsQuery(c) ==
    /\ repoCall[c].pc = "list_db"
    /\ repoCall' = [repoCall EXCEPT ![c] =
          [@ EXCEPT !.pc = "list_set", !.rows = ListPage(postsById, repoCall[c].page)]]
    /\ UNCHANGED <<postsById, redis, redisList, redisCount, dbNow, nextPost,
                   deleted, unread, last, schedVars, storeVars, aggVars,
                   projVars, clockVars, batchVars, laneVars>>

\* ListPosts, r.redis.Set(ctx, cacheKey, postsJSON, r.cacheTTL) and return
ListPostsSet(c) ==
    /\ repoCall[c].pc = "list_set"
    /\ \E ok \in BOOLEAN :
         redisList' = IF ok THEN [redisList EXCEPT ![cacheKey(repoCall[c].page)] =
                                     [has |-> TRUE, rows |-> repoCall[c].rows]]
                      ELSE redisList
    /\ repoCall' = [repoCall EXCEPT ![c] =
          [@ EXCEPT !.pc = "done", !.truth = ListPage(postsById, repoCall[c].page)]]
    /\ UNCHANGED <<postsById, redis, redisCount, dbNow, nextPost, deleted,
                   unread, last, schedVars, storeVars, aggVars,
                   projVars, clockVars, batchVars, laneVars>>

\* CountPosts up to the cache lookup: a hit returns the cached count
CountPostsCall(c) ==
    /\ Resting(c)
    /\ CallsLeft
    /\ LET begun == [IdleCall EXCEPT !.method = "CountPosts",
                                     !.first = unread.count,
                                     !.cached = redisCount.has,
                                     !.clean = ~MutationInFlight]
       IN  repoCall' = [repoCall EXCEPT ![c] =
              IF redisCount.has
              THEN [begun EXCEPT !.pc = "done", !.count = redisCount.n,
                                 !.truthN = CountRows(postsById)]
              ELSE [begun EXCEPT !.pc = "count_db"]]
    /\ dbNow' = dbNow + 1
    /\ unread' = [unread EXCEPT !.count = "no"]
    /\ last' = [method |-> "CountPosts", page |-> 0, c |-> c]
    /\ UNCHANGED <<postsById, redis, redisList, redisCount, nextPost, deleted,
                   schedVars, storeVars, aggVars,
                   projVars, clockVars, batchVars, laneVars>>

\* CountPosts, the SELECT COUNT(*), r.redis.Set and return
CountPostsQuery(c) ==
    /\ repoCall[c].pc = "count_db"
    /\ \E ok \in BOOLEAN :
         redisCount' = IF ok THEN [has |-> TRUE, n |-> CountRows(postsById)]
                       ELSE redisCount
    /\ repoCall' = [repoCall EXCEPT ![c] =
          [@ EXCEPT !.pc = "done", !.count = CountRows(postsById),
                    !.truthN = CountRows(postsById)]]
    /\ UNCHANGED <<postsById, redis, redisList, dbNow, nextPost, deleted,
                   unread, last, schedVars, storeVars, aggVars,
                   projVars, clockVars, batchVars, laneVars>>

\* UpdatePost, the statement reaches the database: its transaction begins
UpdatePostCall(c, id, patch) ==
    /\ Resting(c)
    /\ CallsLeft
    /\ dbNow' = dbNow + 1
    /\ repoCall' = [Disturbed(repoCall) EXCEPT ![c] =
          [IdleCall EXCEPT !.pc = "upd_db", !.method = "UpdatePost", !.id = id,
                           !.patch = patch, !.now = dbNow + 1,
                           !.visible = (postsById[id] # NoRow)]]
    /\ last' = [method |-> "UpdatePost", page |-> 0, c |-> c]
    /\ UNCHANGED <<postsById, redis, redisList, redisCount, nextPost, deleted,
                   unread, schedVars, storeVars, aggVars,
                   projVars, clockVars, batchVars, laneVars>>

\* UpdatePost, the UPDATE takes the row lock and writes; no row returns
\* "failed to update post"
UpdatePostWrite(c) ==
    /\ repoCall[c].pc = "upd_db"
    /\ LET id == repoCall[c].id
           found == repoCall[c].visible /\ postsById[id] # NoRow
           row == UpdatedRow(postsById[id], repoCall[c].patch, repoCall[c].now)
       IN  /\ postsById' = IF found THEN [postsById EXCEPT ![id] = row] ELSE postsById
           /\ repoCall' = [repoCall EXCEPT ![c] =
                 IF found THEN [@ EXCEPT !.pc = "upd_inv", !.post = row]
                 ELSE [@ EXCEPT !.pc = "done",
                                !.err = Wrap("failed to update post", ErrNoRows)]]
    /\ UNCHANGED <<redis, redisList, redisCount, dbNow, nextPost, deleted,
                   unread, last, schedVars, storeVars, aggVars,
                   projVars, clockVars, batchVars, laneVars>>

\* UpdatePost, invalidatePostCaches, invalidateListCaches and return
UpdatePostInvalidate(c) ==
    /\ repoCall[c].pc = "upd_inv"
    /\ \E ok \in BOOLEAN, okList \in BOOLEAN, okCount \in BOOLEAN :
         /\ redis' = redisDel(redis, repoCall[c].id, ok)
         /\ redisList' = listDel(redisList, okList)
         /\ redisCount' = countDel(redisCount, okCount)
    /\ unread' = LeftUnread(redisList', redisCount')
    /\ repoCall' = [repoCall EXCEPT ![c].pc = "done"]
    /\ UNCHANGED <<postsById, dbNow, nextPost, deleted, last, schedVars,
                   storeVars, aggVars, projVars, clockVars, batchVars, laneVars>>

\* post.RowsAffected() of DELETE FROM posts WHERE id = $1
RowsAffected(table, id) == IF table[id] = NoRow THEN 0 ELSE 1

\* DeletePost, the DELETE: zero rows affected returns "post with id not found"
DeletePostCall(c, id) ==
    /\ Resting(c)
    /\ CallsLeft
    /\ dbNow' = dbNow + 1
    /\ postsById' = [postsById EXCEPT ![id] = NoRow]
    /\ repoCall' = [Disturbed(repoCall) EXCEPT ![c] =
          IF RowsAffected(postsById, id) = 0
          THEN [IdleCall EXCEPT !.pc = "done", !.method = "DeletePost", !.id = id,
                                !.err = <<"post with id not found">>]
          ELSE [IdleCall EXCEPT !.pc = "del_inv", !.method = "DeletePost", !.id = id]]
    /\ last' = [method |-> "DeletePost", page |-> 0, c |-> c]
    /\ UNCHANGED <<redis, redisList, redisCount, nextPost, deleted, unread,
                   schedVars, storeVars, aggVars,
                   projVars, clockVars, batchVars, laneVars>>

\* DeletePost, invalidatePostCaches, invalidateListCaches and return nil
DeletePostInvalidate(c) ==
    /\ repoCall[c].pc = "del_inv"
    /\ \E ok \in BOOLEAN, okList \in BOOLEAN, okCount \in BOOLEAN :
         /\ redis' = redisDel(redis, repoCall[c].id, ok)
         /\ redisList' = listDel(redisList, okList)
         /\ redisCount' = countDel(redisCount, okCount)
    /\ unread' = LeftUnread(redisList', redisCount')
    /\ repoCall' = [repoCall EXCEPT ![c].pc = "done"]
    /\ deleted' = deleted \cup {repoCall[c].id}
    /\ UNCHANGED <<postsById, dbNow, nextPost, last, schedVars, storeVars, aggVars,
                   projVars, clockVars, batchVars, laneVars>>

\* a row is changed in the table directly, not through the repository
ChangedDirectly(id) ==
    /\ postsById[id] # NoRow
    /\ postsById[id].title # "direct"
    /\ postsById' = [postsById EXCEPT ![id].title = "direct"]
    /\ UNCHANGED <<redis, redisList, redisCount, dbNow, nextPost, repoCall,
                   deleted, unread, last, schedVars, storeVars, aggVars,
                   projVars, clockVars, batchVars, laneVars>>

RepoNext ==
    \/ RepoCreate
    \/ \E c \in Clients, id \in PostIds : GetPostByIDCall(c, id)
    \/ \E c \in Clients : GetPostByIDSelect(c)
    \/ \E c \in Clients : GetPostByIDSet(c)
    \/ \E id \in PostIds : Expire(id)
    \/ ExpireList
    \/ \E c \in Clients, p \in Pages : ListPostsCall(c, p)
    \/ \E c \in Clients : ListPostsQuery(c)
    \/ \E c \in Clients : ListPostsSet(c)
    \/ \E c \in Clients : CountPostsCall(c)
    \/ \E c \in Clients : CountPostsQuery(c)
    \/ \E c \in Clients, id \in PostIds, patch \in Patches : UpdatePostCall(c, id, patch)
    \/ \E c \in Clients : UpdatePostWrite(c)
    \/ \E c \in Clients : UpdatePostInvalidate(c)
    \/ \E c \in Clients, id \in PostIds : DeletePostCall(c, id)
    \/ \E c \in Clients : DeletePostInvalidate(c)

\* every caller is between calls, and it is the turn of caller c (the
\* callers take turns)
Turn(c) ==
    /\ \A d \in Clients : Resting(d)
    /\ c = (dbNow % MaxClients) + 1

\* the repository with one call at a time, over a table that is also
\* changed directly
SeqNext ==
    \/ \E c \in Clients : Turn(c) /\ RepoCreate
    \/ \E c \in Clients, id \in PostIds : Turn(c) /\ ChangedDirectly(id)
    \/ \E c \in Clients : Turn(c) /\ ExpireList
    \/ \E c \in Clients, p \in Pages : Turn(c) /\ ListPostsCall(c, p)
    \/ \E c \in Clients : ListPostsQuery(c)
    \/ \E c \in Clients : ListPostsSet(c)
    \/ \E c \in Clients : Turn(c) /\ CountPostsCall(c)
    \/ \E c \in Clients : CountPostsQuery(c)
    \/ \E c \in Clients, id \in PostIds, patch \in Patches :
          Turn(c) /\ UpdatePostCall(c, id, patch)
    \/ \E c \in Clients : UpdatePostWrite(c)
    \/ \E c \in Clients : UpdatePostInvalidate(c)
    \/ \E c \in Clients, id \in PostIds : Turn(c) /\ DeletePostCall(c, id)
    \/ \E c \in Clients : DeletePostInvalidate(c)

\* ------------------------------------------------- postService.DeletePost
\* DeletePost of the service up to the cache lookup of s.repo.GetPostByID:
\* id <= 0 returns ErrPostIDInvalid, a cache hit goes on to the DELETE
ServiceDeletePost(c, id) ==
    /\ Resting(c)
    /\ CallsLeft
    /\ dbNow' = dbNow + 1
    /\ LET begun == [IdleCall EXCEPT !.method = "service.DeletePost", !.id = id]
       IN  repoCall' = [repoCall EXCEPT ![c] =
              IF id <= 0 THEN [begun EXCEPT !.pc = "done", !.err = ErrPostIDInvalid]
              ELSE IF redis[id] # NoRow
                   THEN [begun EXCEPT !.pc = "sdel_exec", !.post = redis[id]]
                   ELSE [begun EXCEPT !.pc = "sdel_db"]]
    /\ last' = [method |-> "service.DeletePost", page |-> 0, c |-> c]
    /\ UNCHANGED <<postsById, redis, redisList, redisCount, nextPost, deleted,
                   unread, schedVars, storeVars, aggVars,
                   projVars, clockVars, batchVars, laneVars>>

\* DeletePost of the service, the SELECT of s.repo.GetPostByID: an error for
\* which errors.Is(err, pgx.ErrNoRows) holds returns ErrPostNotFound
ServiceDeleteSelect(c) ==
    /\ repoCall[c].pc = "sdel_db"
    /\ LET id == repoCall[c].id
           err == IF postsById[id] = NoRow
                  THEN Wrap("failed to get post by id", ErrNoRows) ELSE NilErr
       IN  repoCall' = [repoCall EXCEPT ![c] =
              IF err = NilErr THEN [@ EXCEPT !.pc = "sdel_set", !.post = postsById[id]]
              ELSE IF errorsIs(err, ErrNoRows)
                   THEN [@ EXCEPT !.pc = "done", !.err = ErrPostNotFound]
                   ELSE [@ EXCEPT !.pc = "done",
                                  !.err = Wrap("Failed to check post existence", err)]]
    /\ UNCHANGED <<postsById, redis, redisList, redisCount, dbNow, nextPost,
                   deleted, unread, last, schedVars, storeVars, aggVars,
                   projVars, clockVars, batchVars, laneVars>>

\* DeletePost of the service, the redis.Set that ends s.repo.GetPostByID
ServiceDeleteSet(c) ==
    /\ repoCall[c].pc = "sdel_set"
    /\ \E ok \in BOOLEAN :
         redis' = IF ok THEN [redis EXCEPT ![repoCall[c].id] = repoCall[c].post]
                  ELSE redis
    /\ repoCall' = [repoCall EXCEPT ![c].pc = "sdel_exec"]
    /\ UNCHANGED <<postsById, redisList, redisCount, dbNow, nextPost, deleted,
                   unread, last, schedVars, storeVars, aggVars,
                   projVars, clockVars, batchVars, laneVars>>

\* DeletePost of the service, the DELETE of s.repo.DeletePost: zero rows
\* affected returns "Failed to delete post: post with id not found"
\* (visible: the DELETE removed a row)
ServiceDeleteExec(c) ==
    /\ repoCall[c].pc = "sdel_exec"
    /\ postsById' = [postsById EXCEPT ![repoCall[c].id] = NoRow]
    /\ repoCall' = [Disturbed(repoCall) EXCEPT ![c] =
          IF RowsAffected(postsById, repoCall[c].id) = 0
          THEN [repoCall[c] EXCEPT
                   !.pc = "done", !.visible = FALSE,
                   !.err = Wrap("Failed to delete post", <<"post with id not found">>)]
          ELSE [repoCall[c] EXCEPT !.pc = "del_inv", !.visible = TRUE]]
    /\ UNCHANGED <<redis, redisList, redisCount, dbNow, nextPost, deleted,
                   unread, last, schedVars, storeVars, aggVars,
                   projVars, clockVars, batchVars, laneVars>>

\* the callers of the service's DeletePost, beside creators and readers
DeleteNext ==
    \/ RepoCreate
    \/ \E c \in Clients, id \in PostIds : GetPostByIDCall(c, id)
    \/ \E c \in Clients : GetPostByIDSelect(c)
    \/ \E c \in Clients : GetPostByIDSet(c)
    \/ \E id \in PostIds : Expire(id)
    \/ \E c \in Clients, id \in PostIds \cup {0} : ServiceDeletePost(c, id)
    \/ \E c \in Clients : ServiceDeleteSelect(c)
    \/ \E c \in Clients : ServiceDeleteSet(c)
    \/ \E c \in Clients : ServiceDeleteExec(c)
    \/ \E c \in Clients : DeletePostInvalidate(c)

\* ========================================================== schedulerService

\* a scheduledJob that AddJob has not allocated yet
\* (loops: live executor goroutines of the object; execs: those of them
\* that are inside job.job(jobCtx); started, failed: executions of the object
\* that have begun, and that have completed with an error; dropped: how the
\* object left s.jobs, "replaced" by AddJob or "removed" by RemoveJob, "no" if
\* it has not; late: executions begun since it left)
\* NextRun: what job.status.NextRun points to: "nil", a time the scheduler
\* computed ("time"), or a value a caller stored there ("written")
NoJob == [name |-> "", job |-> 0, ticker |-> "nil", tickC |-> FALSE,
          loops |-> 0, execs |-> 0, IsRunning |-> FALSE, RunCount |-> 0,
          ErrorCount |-> 0, LastError |-> "", NextRun |-> "nil",
          started |-> 0, failed |-> 0, dropped |-> "no", late |-> 0,
          interval |-> 0,
          blocked |-> FALSE]

\* scheduledJob as AddJob builds it: no ticker, zero status. Every AddJob call
\* registers a task of its own, identified by the number of the call, with
\* an interval of one unit.
NewJob(name, task) == [NoJob EXCEPT !.name = name, !.job = task, !.interval = 1]

\* executions started so far
RECURSIVE SumRuns(_)
SumRuns(S) == IF S = {} THEN 0
              ELSE LET o == CHOOSE x \in S : TRUE
                   IN  sjob[o].RunCount + SumRuns(S \ {o})

Allocated == 1..(nextJob - 1)

\* executor goroutines that have not returned
LiveLoops == {o \in JobIds : sjob[o].loops > 0}
\* executor goroutines inside job.job(jobCtx)
Executing == {o \in JobIds : sjob[o].execs > 0}

\* a Stop that leaves the ticker sending
TickerStop_StillSends(j, drain) == j

\* a ticker whose Stop ends the goroutine that receives from it
TickerStop_EndsLoop(j, drain) ==
    IF j.ticker = "nil" THEN j
    ELSE [j EXCEPT !.ticker = "stopped", !.loops = 0,
                   !.tickC = IF drain THEN FALSE ELSE j.tickC]

\* time.Ticker.Stop: no further tick is sent. A tick already buffered in the
\* channel stays there (Go < 1.23) or is discarded (Go >= 1.23).
TickerStop(j, drain) ==
    IF j.ticker = "nil" THEN j
    ELSE [j EXCEPT !.ticker = "stopped",
                   !.tickC = IF drain THEN FALSE ELSE j.tickC]

\* a scheduledJob that is out of s.jobs and has no executor goroutine is
\* garbage: nothing refers to it any more. It is kept only as the count of
\* the executions it started.
Collected(j) ==
    IF j.dropped # "no" /\ j.loops = 0
    THEN [NoJob EXCEPT !.RunCount = j.RunCount, !.started = j.started]
    ELSE j

\* a startJob that spawns no executor goroutine
startJob_NoLoop(j) == [j EXCEPT !.ticker = "active", !.tickC = FALSE,
                               !.NextRun = "time"]

\* startJob: new ticker, wg.Add(1), spawn the executor goroutine
startJob(j) == [j EXCEPT !.ticker = "active", !.tickC = FALSE, !.loops = @ + 1,
                        !.NextRun = "time"]

\* an entry the returned map does not have
\* (obj: the scheduledJob it was copied from; shared: its NextRun pointer is
\* still the one job.status.NextRun holds; inflight: executions of the job
\* that were in flight when it was copied)
NoStatus == [present |-> FALSE, obj |-> 0, IsRunning |-> FALSE, RunCount |-> 0,
             ErrorCount |-> 0, NextRun |-> "nil", shared |-> FALSE, inflight |-> 0]

\* status[name] = job.status: a copy of the struct; the *time.Time fields
\* are copied as pointers
StatusCopy(o, j) ==
    [present |-> TRUE, obj |-> o, IsRunning |-> j.IsRunning, RunCount |-> j.RunCount,
     ErrorCount |-> j.ErrorCount, NextRun |-> j.NextRun,
     shared |-> (j.NextRun # "nil"), inflight |-> j.execs]

\* the scheduler stores a fresh pointer in job.status.NextRun of the objects
\* in S: copies made before keep the old one
Repointed(m, S) ==
    [n \in Names |-> IF m[n].obj \in S THEN [m[n] EXCEPT !.shared = FALSE] ELSE m[n]]

SchedInit ==
    /\ status = [n \in Names |-> NoStatus]
    /\ schedErr = NilErr
    /\ jobs = [n \in Names |-> 0]
    /\ sjob = [o \in JobIds |-> NoJob]
    /\ nextJob = 1
    /\ running = FALSE
    /\ ctxDone = FALSE
    /\ wg = 0
    /\ mu = "free"
    /\ stopSaw = FALSE

\* a Start without the "already running" early return
Start_NoGuard ==
    /\ mu = "free"
    /\ running' = TRUE
    /\ ctxDone' = FALSE
    /\ sjob' = [o \in JobIds |->
                  IF \E n \in Names : jobs[n] = o
                  THEN startJob(sjob[o]) ELSE sjob[o]]
    /\ wg' = wg + Cardinality({n \in Names : jobs[n] # 0})
    /\ stopSaw' = FALSE
    /\ status' = Repointed(status, {jobs[n] : n \in Names})
    /\ schedErr' = NilErr
    /\ UNCHANGED <<jobs, nextJob, mu, storeVars, aggVars, repoVars, projVars, clockVars, batchVars, laneVars>>

\* Start(ctx)
Start ==
    /\ mu = "free"
    /\ IF running
       THEN UNCHANGED vars
       ELSE /\ running' = TRUE
            /\ ctxDone' = FALSE
            /\ sjob' = [o \in JobIds |->
                          IF \E n \in Names : jobs[n] = o
                          THEN startJob(sjob[o]) ELSE sjob[o]]
            /\ wg' = wg + Cardinality({n \in Names : jobs[n] # 0})
            /\ stopSaw' = FALSE
            /\ status' = Repointed(status, {jobs[n] : n \in Names})
            /\ schedErr' = NilErr
            /\ UNCHANGED <<jobs, nextJob, mu, storeVars, aggVars, repoVars, projVars, clockVars, batchVars, laneVars>>

\* a Stop that leaves the start context as it is
StopCancel_Forgotten(done) == done

\* Stop(): s.cancel()
StopCancel(done) == TRUE

\* Stop(), up to wg.Wait(): takes s.mu, stops the tickers of the jobs in the
\* table, cancels s.ctx
StopBegin ==
    /\ mu = "free"
    /\ IF ~running
       THEN UNCHANGED vars
       ELSE \E drain \in BOOLEAN :
            /\ mu' = "stop"
            /\ sjob' = [o \in JobIds |->
                          IF \E n \in Names : jobs[n] = o
                          THEN TickerStop(sjob[o], drain) ELSE sjob[o]]
            /\ ctxDone' = StopCancel(ctxDone)
            /\ stopSaw' = (Executing # {})
            /\ UNCHANGED <<jobs, nextJob, running, wg, status, schedErr, storeVars, aggVars, repoVars,
                   projVars, clockVars, batchVars, laneVars>>

\* a Stop that does not wait for the executor goroutines
WaitDone_NoWait(n) == TRUE

\* wg.Wait() of Stop returns
WaitDone(n) == n = 0

\* a Stop that reports the error of a job that failed
StopResult_JobError(js) ==
    IF \E o \in JobIds : js[o].LastError # "" THEN <<"task failed">> ELSE NilErr

\* Stop(): return nil
StopResult(js) == NilErr

\* Stop(), from wg.Wait() returning: clears running, releases s.mu
StopReturn ==
    /\ mu = "stop"
    /\ WaitDone(wg)
    /\ running' = FALSE
    /\ mu' = "free"
    /\ schedErr' = StopResult(sjob)
    /\ UNCHANGED <<jobs, sjob, nextJob, ctxDone, wg, stopSaw, status, storeVars, aggVars, repoVars,
                   projVars, clockVars, batchVars, laneVars>>

\* AddJob(name, interval, job)
AddJob(name) ==
    /\ mu = "free"
    /\ nextJob <= MaxJobs
    /\ name = FirstName \/ nextJob > 1
    /\ \E drain \in BOOLEAN :
         LET old == jobs[name]
             stopped == IF old = 0 THEN sjob
                        ELSE [sjob EXCEPT ![old] =
                                 Collected([TickerStop(sjob[old], drain)
                                               EXCEPT !.dropped = "replaced"])]
             fresh == NewJob(name, nextJob)
         IN  sjob' = [stopped EXCEPT ![nextJob] =
                         IF running THEN startJob(fresh) ELSE fresh]
    /\ jobs' = [jobs EXCEPT ![name] = nextJob]
    /\ nextJob' = nextJob + 1
    /\ wg' = IF running THEN wg + 1 ELSE wg
    /\ UNCHANGED <<running, ctxDone, mu, stopSaw, status, schedErr, storeVars, aggVars, repoVars,
                   projVars, clockVars, batchVars, laneVars>>

\* RemoveJob(name)
RemoveJob(name) ==
    /\ mu = "free"
    /\ IF jobs[name] = 0
       THEN UNCHANGED vars
       ELSE \E drain \in BOOLEAN :
            /\ sjob' = [sjob EXCEPT ![jobs[name]] =
                           Collected([TickerStop(sjob[jobs[name]], drain)
                                         EXCEPT !.dropped = "removed"])]
            /\ jobs' = [jobs EXCEPT ![name] = 0]
            /\ UNCHANGED <<nextJob, running, ctxDone, wg, mu, stopSaw, status, schedErr, storeVars, aggVars, repoVars,
                   projVars, clockVars, batchVars, laneVars>>

\* the owner of the context handed to Start cancels it
CancelStartCtx ==
    /\ running
    /\ ~ctxDone
    /\ ctxDone' = TRUE
    /\ UNCHANGED <<jobs, sjob, nextJob, running, wg, mu, stopSaw, status, schedErr, storeVars, aggVars, repoVars,
                   projVars, clockVars, batchVars, laneVars>>

\* the runtime timer sends a tick on job.ticker.C (capacity 1; a tick that
\* finds the buffer full is dropped)
Tick(o) ==
    /\ sjob[o].ticker = "active"
    /\ ~sjob[o].tickC
    /\ SumRuns(JobIds) < MaxRuns
    /\ sjob' = [sjob EXCEPT ![o].tickC = TRUE]
    /\ UNCHANGED <<jobs, nextJob, running, ctxDone, wg, mu, stopSaw, status, schedErr, storeVars, aggVars, repoVars,
                   projVars, clockVars, batchVars, laneVars>>

\* executeJob, the first critical section on job.status
StatusStarted(j) == [j EXCEPT !.IsRunning = TRUE, !.RunCount = @ + 1]

\* executeJob, the second critical section, counting every completion as an
\* error
StatusFinished_CountsAll(j, failed) ==
    [j EXCEPT !.IsRunning = FALSE, !.ErrorCount = @ + 1, !.NextRun = "time",
              !.LastError = IF failed THEN "task failed" ELSE ""]

\* executeJob, the second critical section, leaving LastError as it was on
\* success
StatusFinished_KeepsError(j, failed) ==
    [j EXCEPT !.IsRunning = FALSE, !.NextRun = "time",
              !.ErrorCount = IF failed THEN @ + 1 ELSE @,
              !.LastError = IF failed THEN "task failed" ELSE @]

\* executeJob, the second critical section on job.status (failed: the task
\* returned an error)
StatusFinished(j, failed) ==
    [j EXCEPT !.IsRunning = FALSE, !.NextRun = "time",
              !.ErrorCount = IF failed THEN @ + 1 ELSE @,
              !.LastError = IF failed THEN "task failed" ELSE ""]

\* executor loop, case <-job.ticker.C, and executeJob up to job.job(jobCtx).
\* select picks any ready case, so this is enabled after cancellation too.
ExecBegin(o) ==
    /\ sjob[o].loops > sjob[o].execs
    /\ sjob[o].tickC
    /\ sjob' = [sjob EXCEPT ![o] =
                   [StatusStarted(sjob[o]) EXCEPT
                       !.tickC = FALSE,
                       !.execs = @ + 1,
                       !.started = @ + 1,
                       !.late = IF sjob[o].dropped # "no" THEN @ + 1 ELSE @]]
    /\ UNCHANGED <<jobs, nextJob, running, ctxDone, wg, mu, stopSaw, status, schedErr, storeVars, aggVars, repoVars,
                   projVars, clockVars, batchVars, laneVars>>

\* s.mu.RLock() can proceed
RLockFree(m) == m = "free"

\* the task of an execution in flight calls an operation of the scheduler
\* (s.IsRunning(), s.GetJobStatus()) while Stop holds s.mu: it waits in
\* s.mu.RLock() (blocked). A call made while s.mu is free returns at once and
\* changes nothing.
TaskCalls(o) ==
    /\ sjob[o].execs > 0
    /\ ~sjob[o].blocked
    /\ ~RLockFree(mu)
    /\ sjob' = [sjob EXCEPT ![o].blocked = TRUE]
    /\ UNCHANGED <<jobs, nextJob, running, ctxDone, wg, mu, stopSaw, status, schedErr, storeVars, aggVars, repoVars,
                   projVars, clockVars, batchVars, laneVars>>

\* job.job(jobCtx) returns (a task waiting in a call of the scheduler gets
\* the lock first); executeJob updates the status
ExecEnd(o) ==
    /\ sjob[o].execs > 0
    /\ sjob[o].blocked => RLockFree(mu)
    /\ \E failed \in BOOLEAN :
         sjob' = [sjob EXCEPT ![o] =
                    [StatusFinished(sjob[o], failed) EXCEPT
                        !.execs = @ - 1,
                        !.blocked = FALSE,
                        !.failed = IF failed THEN @ + 1 ELSE @]]
    /\ status' = Repointed(status, {o})
    /\ UNCHANGED <<jobs, nextJob, running, ctxDone, wg, mu, stopSaw, schedErr, storeVars, aggVars, repoVars,
                   projVars, clockVars, batchVars, laneVars>>

\* executor loop, case <-s.ctx.Done(): deferred ticker.Stop and wg.Done
\* (no goroutine receives from the channel of this ticker any more, so a
\* tick left in it is dropped with it)
LoopExit(o) ==
    /\ sjob[o].loops > sjob[o].execs
    /\ ctxDone
    /\ sjob' = [sjob EXCEPT ![o] =
                   Collected([TickerStop(sjob[o], TRUE) EXCEPT !.loops = @ - 1])]
    /\ wg' = wg - 1
    /\ UNCHANGED <<jobs, nextJob, running, ctxDone, mu, stopSaw, status, schedErr, storeVars, aggVars, repoVars,
                   projVars, clockVars, batchVars, laneVars>>

\* GetJobStatus(): under s.mu.RLock, a new map with a copy of every job's
\* status taken under job.mu.RLock
GetJobStatus ==
    /\ RLockFree(mu)
    /\ status' = [n \in Names |->
                    IF jobs[n] = 0 THEN NoStatus
                    ELSE StatusCopy(jobs[n], sjob[jobs[n]])]
    /\ UNCHANGED <<jobs, sjob, nextJob, running, ctxDone, wg, mu, stopSaw,
                   schedErr, storeVars, aggVars, repoVars,
                   projVars, clockVars, batchVars, laneVars>>

\* the caller changes the map it got: delete(status, name)
CallerDeletes(n) ==
    /\ status[n].present
    /\ status' = [status EXCEPT ![n] = NoStatus]
    /\ UNCHANGED <<jobs, sjob, nextJob, running, ctxDone, wg, mu, stopSaw,
                   schedErr, storeVars, aggVars, repoVars,
                   projVars, clockVars, batchVars, laneVars>>

\* the caller changes a record it got, a field of the copy: rec.RunCount = 0
CallerSetsField(n) ==
    /\ status[n].present
    /\ status[n].RunCount # 0
    /\ status' = [status EXCEPT ![n].RunCount = 0]
    /\ UNCHANGED <<jobs, sjob, nextJob, running, ctxDone, wg, mu, stopSaw,
                   schedErr, storeVars, aggVars, repoVars,
                   projVars, clockVars, batchVars, laneVars>>

\* the caller changes a record it got, the time behind a pointer field:
\* *rec.NextRun = t. The scheduler's record holds the same pointer until the
\* scheduler stores a fresh one.
CallerSetsTime(n) ==
    /\ status[n].present
    /\ status[n].NextRun = "time"
    /\ status' = [status EXCEPT ![n].NextRun = "written"]
    /\ sjob' = IF status[n].shared /\ sjob[status[n].obj].NextRun # "nil"
               THEN [sjob EXCEPT ![status[n].obj].NextRun = "written"]
               ELSE sjob
    /\ UNCHANGED <<jobs, nextJob, running, ctxDone, wg, mu, stopSaw,
                   schedErr, storeVars, aggVars, repoVars,
                   projVars, clockVars, batchVars, laneVars>>

SchedNext ==
    \/ Start
    \/ StopBegin
    \/ StopReturn
    \/ \E n \in Names : AddJob(n)
    \/ \E n \in Names : RemoveJob(n)
    \/ CancelStartCtx
    \/ \E o \in JobIds : Tick(o)
    \/ \E o \in JobIds : ExecBegin(o)
    \/ \E o \in JobIds : ExecEnd(o)
    \/ \E o \in JobIds : LoopExit(o)

\* the scheduler whose callers start and stop it and register and replace
\* jobs (a job leaves the table by replacement only)
FairNext ==
    \/ Start
    \/ StopBegin
    \/ StopReturn
    \/ \E n \in Names : AddJob(n)
    \/ CancelStartCtx
    \/ \E o \in JobIds : Tick(o)
    \/ \E o \in JobIds : ExecBegin(o)
    \/ \E o \in JobIds : ExecEnd(o)
    \/ \E o \in JobIds : LoopExit(o)

\* ---- AddJob with any interval and any task
\* the intervals and tasks a caller of AddJob may pass (task 0: nil)
AnyIntervals == {0, 1}
AnyTasks == {0, 1}

\* time.NewTicker(d) panics for a non-positive d
NewTickerPanics(d) == d <= 0

PanicNewTicker == <<"panic: non-positive interval for NewTicker">>
PanicNilTask == <<"panic: invalid memory address or nil pointer dereference">>
\* a goroutine of the process has panicked (schedErr holds the panic value)
Panicked == schedErr \in {PanicNewTicker, PanicNilTask}

\* Start(ctx) over a table that may hold a job with a non-positive
\* interval: startJob panics at that job, after s.running was set and the
\* jobs the range loop reached before it (started) were started; the
\* deferred Unlock runs while the panic unwinds
StartUnchecked ==
    LET inTable == {jobs[n] : n \in Names} \ {0}
        bad == {o \in inTable : NewTickerPanics(sjob[o].interval)}
    IN  IF running \/ bad = {}
        THEN Start
        ELSE /\ mu = "free"
             /\ \E started \in SUBSET (inTable \ bad) :
                  /\ sjob' = [o \in JobIds |->
                                IF o \in started THEN startJob(sjob[o]) ELSE sjob[o]]
                  /\ wg' = wg + Cardinality(started)
                  /\ status' = Repointed(status, started)
             /\ running' = TRUE
             /\ ctxDone' = FALSE
             /\ stopSaw' = FALSE
             /\ schedErr' = PanicNewTicker
             /\ UNCHANGED <<jobs, nextJob, mu, storeVars, aggVars, repoVars, projVars,
                            clockVars, batchVars, laneVars>>

\* AddJob(name, interval, job) with any interval and task: on a running
\* scheduler startJob panics for a non-positive interval, after the job was
\* put into s.jobs
AddJobUnchecked(name, interval, task) ==
    /\ mu = "free"
    /\ nextJob <= MaxJobs
    /\ \E drain \in BOOLEAN :
         LET old == jobs[name]
             stopped == IF old = 0 THEN sjob
                        ELSE [sjob EXCEPT ![old] =
                                 Collected([TickerStop(sjob[old], drain)
                                               EXCEPT !.dropped = "replaced"])]
             fresh == [NewJob(name, task) EXCEPT !.interval = interval]
             panics == running /\ NewTickerPanics(interval)
         IN  /\ sjob' = [stopped EXCEPT ![nextJob] =
                            IF running /\ ~panics THEN startJob(fresh) ELSE fresh]
             /\ wg' = IF running /\ ~panics THEN wg + 1 ELSE wg
             /\ schedErr' = IF panics THEN PanicNewTicker ELSE schedErr
    /\ jobs' = [jobs EXCEPT ![name] = nextJob]
    /\ nextJob' = nextJob + 1
    /\ UNCHANGED <<running, ctxDone, mu, stopSaw, status, storeVars, aggVars, repoVars,
                   projVars, clockVars, batchVars, laneVars>>

\* case <-job.ticker.C and executeJob: with a nil task the call
\* job.job(jobCtx) panics in the executor goroutine, after the first
\* critical section on the status
ExecBeginUnchecked(o) ==
    IF sjob[o].job # 0
    THEN ExecBegin(o)
    ELSE /\ sjob[o].loops > sjob[o].execs
         /\ sjob[o].tickC
         /\ sjob' = [sjob EXCEPT ![o] =
                        [StatusStarted(sjob[o]) EXCEPT !.tickC = FALSE,
                                                       !.started = @ + 1]]
         /\ schedErr' = PanicNilTask
         /\ UNCHANGED <<jobs, nextJob, running, ctxDone, wg, mu, stopSaw, status,
                        storeVars, aggVars, repoVars, projVars, clockVars,
                        batchVars, laneVars>>

\* the scheduler whose callers register any interval and task; a panic ends
\* the process
UncheckedNext ==
    \/ ~Panicked /\ StartUnchecked
    \/ ~Panicked /\ StopBegin
    \/ ~Panicked /\ StopReturn
    \/ ~Panicked /\ \E n \in Names, d \in AnyIntervals, t \in AnyTasks :
                       AddJobUnchecked(n, d, t)
    \/ ~Panicked /\ \E n \in Names : RemoveJob(n)
    \/ ~Panicked /\ \E o \in JobIds : Tick(o)
    \/ ~Panicked /\ \E o \in JobIds : ExecBeginUnchecked(o)
    \/ ~Panicked /\ \E o \in JobIds : ExecEnd(o)
    \/ ~Panicked /\ \E o \in JobIds : LoopExit(o)

\* the scheduler whose tasks call back into it
ReentrantNext ==
    \/ Start
    \/ StopBegin
    \/ StopReturn
    \/ \E n \in Names : AddJob(n)
    \/ \E n \in Names : RemoveJob(n)
    \/ \E o \in JobIds : Tick(o)
    \/ \E o \in JobIds : ExecBegin(o)
    \/ \E o \in JobIds : TaskCalls(o)
    \/ \E o \in JobIds : ExecEnd(o)
    \/ \E o \in JobIds : LoopExit(o)

\* the scheduler with a caller that reads the job status and changes what
\* it got
StatusNext ==
    \/ SchedNext
    \/ GetJobStatus
    \/ \E n \in Names : CallerDeletes(n)
    \/ \E n \in Names : CallerSetsField(n)
    \/ \E n \in Names : CallerSetsTime(n)

\* ======================================================== aggregatorService
\* GetDefaultCategories()
DefaultCategories == <<"general", "business", "entertainment", "health",
                       "science", "sports", "technology">>
\* the categories upstream has articles in or fails on; for any other
\* category it answers with an empty list
Cats == {"technology", "business"}
\* category lists a caller of AggregateByCategories passes: the first n of
\* these, with distinct categories and with a category named twice
CatPools == {<<"technology", "business", "technology", "business">>,
             <<"technology", "technology", "business", "business">>}
CatLists == {SubSeq(pool, 1, n) : pool \in CatPools, n \in 0..MaxUnits}
\* a category list with one more unit than the worker ceiling
FanCategories == SubSeq(DefaultCategories, 1, maxWorkers + 1)
\* the unit's upstream call is one that may return articles or fail
Answers(op, key) == op # "AggregateByCategories" \/ key \in Cats
\* articles upstream may return for a unit out of b
Stock(op, key, b) == IF Answers(op, key) THEN b ELSE 0
\* the sources a caller of AggregateBySources passes: the first n of these
SourcePool == <<"bbc-news", "cnn", "reuters", "associated-press", "the-verge",
                "techcrunch", "ars-technica">>
SourceLists == {SubSeq(SourcePool, 1, n) : n \in 0..MaxSources}

\* upstream articles: url and source.name
SrcNames == {"", "TechCrunch"}
Articles == [url : Urls, src : SrcNames]
ArticleSeqs(n) == UNION {[1..k -> Articles] : k \in 0..n}

\* a batch end that leaves the last source of a full batch out
batchEnd_Short(i, n) == IF i + batchSize > n THEN n ELSE i + batchSize - 1

\* end := i + batchSize; if end > len(sources) { end = len(sources) }
batchEnd(i, n) == IF i + batchSize > n THEN n ELSE i + batchSize

\* aggregateBySources: the loop that cuts sources into batches of batchSize
RECURSIVE Batches(_, _)
Batches(sources, i) ==
    IF i >= Len(sources) THEN <<>>
    ELSE <<SubSeq(sources, i + 1, batchEnd(i, Len(sources)))>>
         \o Batches(sources, i + batchSize)

\* model.CategoryStats{} / the totals of model.AggregationResponse
\* (Msgs: messages the unit appended to its Errors list)
ZeroStats == [Fetched |-> 0, Created |-> 0, Duplicates |-> 0, Errors |-> 0,
              Msgs |-> 0]

\* AggregationResponse as aggregateByCategories / aggregateBySources build it
EmptyReport == [TotalFetched |-> 0, TotalCreated |-> 0, TotalDuplicates |-> 0,
                TotalErrors |-> 0, Categories |-> <<>>, Errors |-> 0]

\* nothing returned yet (nil: the report pointer is nil)
NoRet == [nil |-> TRUE, report |-> EmptyReport, err |-> NilErr]

\* a worker goroutine as the go statement leaves it
\* (arts, k: response.Articles and the loop index, live until the process
\* function returns; upErr: its upstream call failed; named: fetched
\* articles with a source name; held: those of them whose url a stored post
\* held when the create was decided; snap: the totals it read under the mutex;
\* calls: upstream calls it has made)
NewUnit == [pc |-> "queued", arts |-> <<>>, k |-> 0, stats |-> ZeroStats,
            upErr |-> FALSE, named |-> 0, held |-> 0, snap |-> ZeroStats,
            calls |-> 0]

IsCategoryOp(op) == op = "AggregateByCategories"

\* a nil pointer, and a pointer to v
Nil == <<>>
Ptr(v) == <<v>>

\* no article under way (params: the CreatePostParams; stored: the rows the
\* create added; stats: the counters of the unit that fetched the article)
NoProj == [pc |-> "idle", article |-> Nil, params |-> Nil, stored |-> <<>>,
           stats |-> ZeroStats]

ProjIdle == proj = NoProj

\* no job on the time line (fireAt: when the ticker fires next; tickC: the
\* tick buffered in ticker.C; trigger: the tick that the last execution
\* received; start: time.Now() at the top of executeJob)
NoTimed == [pc |-> "none", interval |-> 0, ticker |-> "nil", fireAt |-> 0,
            tickC |-> Nil, trigger |-> 0, start |-> 0, NextRun |-> Nil,
            LastRun |-> Nil, RunCount |-> 0]

ClockIdle == clock = 0 /\ tjob = NoTimed

\* model.SourceStats{}
ZeroSourceStats == [Fetched |-> 0, Created |-> 0, Duplicates |-> 0, Errors |-> 0]

\* no call of processSourceNews (sources: the batch; arts, k: response.Articles
\* and the loop index; totals: the counters of result; sourceStats: the local
\* map; Sources: result.Sources)
NoBatch == [pc |-> "idle", sources |-> <<>>, arts |-> <<>>, k |-> 0,
            totals |-> ZeroStats, sourceStats |-> <<>>, Sources |-> <<>>]

BatchIdle == srcRun = NoBatch

\* the callers whose aggregation runs overlap: a scheduled job and a manual
\* trigger
Callers == {"job", "trigger"}

\* no run (semaphore: elements in the run's semaphore channel; unit: the
\* position of each worker goroutine)
NoLane == [pc |-> "idle", semaphore |-> 0, unit |-> <<>>]

LaneIdle == lane = [r \in Callers |-> NoLane]

AggIdle ==
    /\ aggPc = "idle"
    /\ aggOp = ""
    /\ aggUnits = <<>>
    /\ aggCtx = FALSE
    /\ semaphore = 0
    /\ aggWg = 0
    /\ aggMu = 0
    /\ result = EmptyReport
    /\ ret = NoRet
    /\ unit = <<>>
    /\ budget = 0

\* A specification of one part of the program leaves the other parts out:
\* their variables hold no value.
SchedOff ==
    /\ jobs = Nil /\ sjob = Nil /\ nextJob = Nil /\ running = Nil /\ ctxDone = Nil
    /\ wg = Nil /\ mu = Nil /\ stopSaw = Nil /\ status = Nil /\ schedErr = Nil

StoreOff == posts = Nil /\ nextId = Nil /\ client = Nil

AggOff ==
    /\ aggPc = Nil /\ aggOp = Nil /\ aggUnits = Nil /\ aggCtx = Nil
    /\ semaphore = Nil /\ aggWg = Nil /\ aggMu = Nil /\ result = Nil
    /\ ret = Nil /\ unit = Nil /\ budget = Nil

RepoOff ==
    /\ postsById = Nil /\ redis = Nil /\ dbNow = Nil /\ nextPost = Nil
    /\ repoCall = Nil /\ deleted = Nil /\ redisList = Nil /\ redisCount = Nil
    /\ unread = Nil /\ last = Nil

ProjOff == proj = Nil

ClockOff == clock = Nil /\ tjob = Nil

BatchOff == srcRun = Nil

LaneOff == lane = Nil

\* before a run that may fetch the given number of articles
AggStart(articles) ==
    /\ aggPc = "idle"
    /\ aggOp = ""
    /\ aggUnits = <<>>
    /\ aggCtx = FALSE
    /\ semaphore = 0
    /\ aggWg = 0
    /\ aggMu = 0
    /\ result = EmptyReport
    /\ ret = NoRet
    /\ unit = <<>>
    /\ budget = articles
    /\ client = [c \in Clients |-> IdleClient]

\* the store is empty or already holds one article
AggInit ==
    /\ AggStart(MaxFetched)
    /\ \/ posts = {} /\ nextId = 1
       \/ posts = {[id |-> 1, url |-> "u1"]} /\ nextId = 2
    /\ SchedOff /\ RepoOff /\ ProjOff /\ ClockOff /\ BatchOff /\ LaneOff

FanInit ==
    /\ AggStart(FanFetched)
    /\ posts = {} /\ nextId = 1
    /\ SchedOff /\ RepoOff /\ ProjOff /\ ClockOff /\ BatchOff /\ LaneOff

SchedOnlyInit ==
    SchedInit /\ StoreOff /\ AggOff /\ RepoOff /\ ProjOff /\ ClockOff /\ BatchOff /\ LaneOff

\* a scheduler that Stop has stopped after its job "j" ran once (failed:
\* that execution returned an error); a second job was never registered, or
\* was registered and removed before the Stop
RestartInit ==
    /\ StoreOff /\ AggOff /\ RepoOff /\ ProjOff /\ ClockOff /\ BatchOff /\ LaneOff
    /\ status = [n \in Names |-> NoStatus]
    /\ schedErr = NilErr
    /\ jobs = [n \in Names |-> IF n = FirstName THEN 1 ELSE 0]
    /\ \E failed \in BOOLEAN :
         sjob = [o \in JobIds |->
                   IF o = 1
                   THEN [TickerStop(StatusFinished(StatusStarted(
                                       startJob(NewJob(FirstName, 1))), failed), TRUE)
                            EXCEPT !.loops = 0, !.started = 1,
                                   !.failed = IF failed THEN 1 ELSE 0]
                   ELSE NoJob]
    /\ nextJob \in {2, 3}
    /\ running = FALSE
    /\ ctxDone = TRUE
    /\ wg = 0
    /\ mu = "free"
    /\ stopSaw = FALSE

StoreOnlyInit ==
    StoreInit /\ SchedOff /\ AggOff /\ RepoOff /\ ProjOff /\ ClockOff /\ BatchOff /\ LaneOff

RepoInit ==
    RepoIdle /\ SchedOff /\ StoreOff /\ AggOff /\ ProjOff /\ ClockOff /\ BatchOff /\ LaneOff

\* the for loop of aggregateByCategories / aggregateBySources: wg.Add(1) and
\* one goroutine per unit
Dispatch(op, units) ==
    /\ aggPc = "idle"
    /\ aggPc' = "wait"
    /\ aggOp' = op
    /\ aggUnits' = units
    /\ unit' = [i \in 1..Len(units) |-> NewUnit]
    /\ aggWg' = Len(units)
    /\ result' = EmptyReport
    /\ UNCHANGED <<aggCtx, semaphore, aggMu, ret, budget, schedVars, repoVars, storeVars,
                   projVars, clockVars, batchVars, laneVars>>

AggregateByCategories(categories) == Dispatch("AggregateByCategories", categories)

AggregateBySources(sources) == Dispatch("AggregateBySources", Batches(sources, 0))

\* the caller's context is cancelled (before the call or during the run)
CancelRunCtx ==
    /\ aggPc \in {"idle", "wait"}
    /\ ~aggCtx
    /\ aggCtx' = TRUE
    /\ UNCHANGED <<aggPc, aggOp, aggUnits, semaphore, aggWg, aggMu, result, ret,
                   unit, budget, schedVars, repoVars, storeVars,
                   projVars, clockVars, batchVars, laneVars>>

\* a semaphore with no ceiling
SemHasRoom_Unbounded(n) == TRUE

\* the send on the semaphore channel can proceed
SemHasRoom(n) == n < maxWorkers

\* semaphore <- struct{}{}
SemAcquire(i) ==
    /\ i \in DOMAIN unit
    /\ unit[i].pc = "queued"
    /\ SemHasRoom(semaphore)
    /\ semaphore' = semaphore + 1
    /\ unit' = [unit EXCEPT ![i].pc = "fetch"]
    /\ UNCHANGED <<aggPc, aggOp, aggUnits, aggCtx, aggWg, aggMu, result, ret,
                   budget, schedVars, repoVars, storeVars,
                   projVars, clockVars, batchVars, laneVars>>

\* the index of the next article at or after k that the loop creates a post
\* for (the category loop skips an empty source.name), 0 if none is left
NextArticle(op, arts, k) ==
    LET todo == {j \in k..Len(arts) : ~IsCategoryOp(op) \/ arts[j].src # ""}
    IN  IF todo = {} THEN 0 ELSE CHOOSE j \in todo : \A h \in todo : j <= h

\* the worker after one article is dealt with
Advance(op, u) ==
    LET n == NextArticle(op, u.arts, u.k + 1)
    IN  IF n = 0 THEN [u EXCEPT !.pc = "merge", !.k = 0, !.arts = <<>>]
        ELSE [u EXCEPT !.pc = "exists", !.k = n]

\* processCategoryNews / processSourceNews: the upstream call failed
FetchFailed(op, u) ==
    IF IsCategoryOp(op)
    THEN [u EXCEPT !.stats.Errors = @ + 1, !.upErr = TRUE, !.pc = "merge",
                   !.calls = @ + 1]
    ELSE [u EXCEPT !.stats.Errors = @ + 1, !.stats.Msgs = @ + 1,
                   !.upErr = TRUE, !.pc = "merge", !.calls = @ + 1]

\* processCategoryNews / processSourceNews: the upstream call returned arts
Fetched(op, u, arts) ==
    Advance(op, [u EXCEPT !.arts = arts, !.stats.Fetched = Len(arts), !.k = 0,
                          !.calls = @ + 1,
                          !.named = Cardinality({j \in DOMAIN arts : arts[j].src # ""})])

\* GetNewsByCategory / GetNewsBySources; with a cancelled context the request
\* fails
Fetch(i) ==
    /\ i \in DOMAIN unit
    /\ unit[i].pc = "fetch"
    /\ \/ /\ aggCtx \/ Answers(aggOp, aggUnits[i])
          /\ unit' = [unit EXCEPT ![i] = FetchFailed(aggOp, unit[i])]
          /\ UNCHANGED budget
       \/ /\ ~aggCtx
          /\ \E arts \in ArticleSeqs(Stock(aggOp, aggUnits[i], budget)) :
               /\ unit' = [unit EXCEPT ![i] = Fetched(aggOp, unit[i], arts)]
               /\ budget' = budget - Len(arts)
    /\ UNCHANGED <<aggPc, aggOp, aggUnits, aggCtx, semaphore, aggWg, aggMu,
                   result, ret, schedVars, repoVars, storeVars,
                   projVars, clockVars, batchVars, laneVars>>

\* processCategoryNews: classification of what CreatePostFromNewsAPI returned
CountCategory(st, r) ==
    IF r.err # NilErr
    THEN IF errorsIs(r.err, ErrPostExists)
         THEN [st EXCEPT !.Duplicates = @ + 1]
         ELSE [st EXCEPT !.Errors = @ + 1]
    ELSE IF r.post # 0 THEN [st EXCEPT !.Created = @ + 1]
    ELSE st

\* processSourceNews: classification of what CreatePostFromNewsAPI returned
\* (err.Error() is compared with the message of ErrPostExists)
CountSource(st, r) ==
    IF r.err # NilErr
    THEN IF r.err = ErrPostExists
         THEN [st EXCEPT !.Duplicates = @ + 1]
         ELSE [st EXCEPT !.Errors = @ + 1]
    ELSE IF r.post # 0 THEN [st EXCEPT !.Created = @ + 1]
    ELSE st

Count(op, st, r) == IF IsCategoryOp(op) THEN CountCategory(st, r) ELSE CountSource(st, r)

\* the worker after CreatePostFromNewsAPI returned r for its current article
Classified(op, u, r, wasHeld) ==
    Advance(op, [u EXCEPT !.stats = Count(op, u.stats, r),
                          !.held = IF wasHeld /\ u.arts[u.k].src # ""
                                   THEN @ + 1 ELSE @])

\* database calls under a cancelled context fail
FailChoices == IF aggCtx THEN {TRUE} ELSE BOOLEAN

\* CreatePostFromNewsAPI, the existence check
UnitExists(i) ==
    /\ i \in DOMAIN unit
    /\ unit[i].pc = "exists"
    /\ \E fail \in FailChoices :
         LET url == unit[i].arts[unit[i].k].url
             r == CreatePostFromNewsAPIChecked(PostExists(GetPostByURL(posts, url, fail)))
         IN  unit' = [unit EXCEPT ![i] =
                 IF r.done THEN Classified(aggOp, unit[i], r, UrlHeld(posts, url))
                 ELSE [@ EXCEPT !.pc = "insert"]]
    /\ UNCHANGED <<aggPc, aggOp, aggUnits, aggCtx, semaphore, aggWg, aggMu,
                   result, ret, budget, schedVars, repoVars, storeVars,
                   projVars, clockVars, batchVars, laneVars>>

\* CreatePostFromNewsAPI, the insert
UnitInsert(i) ==
    /\ i \in DOMAIN unit
    /\ unit[i].pc = "insert"
    /\ \E fail \in FailChoices :
         LET url == unit[i].arts[unit[i].k].url
             ins == RepoCreatePost(posts, url, nextId, fail)
             r == CreatePostFromNewsAPIInserted(ins)
         IN  /\ posts' = ins.rows
             /\ nextId' = IF ins.err = NilErr THEN nextId + 1 ELSE nextId
             /\ unit' = [unit EXCEPT ![i] =
                           Classified(aggOp, unit[i], r, UrlHeld(posts, url))]
    /\ UNCHANGED <<aggPc, aggOp, aggUnits, aggCtx, semaphore, aggWg, aggMu,
                   result, ret, budget, schedVars, repoVars, client,
                   projVars, clockVars, batchVars, laneVars>>

\* the totals of the shared report
Totals(res) == [Fetched |-> res.TotalFetched, Created |-> res.TotalCreated,
                Duplicates |-> res.TotalDuplicates, Errors |-> res.TotalErrors,
                Msgs |-> res.Errors]

\* a mutex that never blocks
MuFree_NoLock(holder) == TRUE

\* mu.Lock() can proceed
MuFree(holder) == holder = 0

\* mu.Lock(), and the reads of the += statements
MergeLock(i) ==
    /\ i \in DOMAIN unit
    /\ unit[i].pc = "merge"
    /\ MuFree(aggMu)
    /\ aggMu' = i
    /\ unit' = [unit EXCEPT ![i].pc = "locked", ![i].snap = Totals(result)]
    /\ UNCHANGED <<aggPc, aggOp, aggUnits, aggCtx, semaphore, aggWg, result, ret,
                   budget, schedVars, repoVars, storeVars,
                   projVars, clockVars, batchVars, laneVars>>

\* the += statements with the fetched count added to the error total
MergedTotals_WrongField(res, u) ==
    [res EXCEPT !.TotalFetched = u.snap.Fetched + u.stats.Fetched,
                !.TotalCreated = u.snap.Created + u.stats.Created,
                !.TotalDuplicates = u.snap.Duplicates + u.stats.Duplicates,
                !.TotalErrors = u.snap.Errors + u.stats.Fetched]

\* the writes of the += statements on the four totals
MergedTotals(res, u) ==
    [res EXCEPT !.TotalFetched = u.snap.Fetched + u.stats.Fetched,
                !.TotalCreated = u.snap.Created + u.stats.Created,
                !.TotalDuplicates = u.snap.Duplicates + u.stats.Duplicates,
                !.TotalErrors = u.snap.Errors + u.stats.Errors]

\* the writes of the critical section: totals, and the per-category entry
\* (category path) or the appended error messages (source path)
Merged(op, res, key, u) ==
    IF IsCategoryOp(op)
    THEN [MergedTotals(res, u) EXCEPT !.Categories =
             [c \in DOMAIN res.Categories \cup {key} |->
                 IF c = key THEN [u.stats EXCEPT !.Msgs = 0]
                 ELSE res.Categories[c]]]
    ELSE [MergedTotals(res, u) EXCEPT !.Errors = u.snap.Msgs + u.stats.Msgs]

\* the writes of the critical section, mu.Unlock(), the deferred semaphore
\* receive and wg.Done()
MergeUnlock(i) ==
    /\ i \in DOMAIN unit
    /\ unit[i].pc = "locked"
    /\ result' = Merged(aggOp, result, aggUnits[i], unit[i])
    /\ aggMu' = 0
    /\ semaphore' = semaphore - 1
    /\ aggWg' = aggWg - 1
    /\ unit' = [unit EXCEPT ![i].pc = "done", ![i].snap = ZeroStats]
    /\ UNCHANGED <<aggPc, aggOp, aggUnits, aggCtx, ret, budget, schedVars, repoVars, storeVars,
                   projVars, clockVars, batchVars, laneVars>>

\* a wg.Wait() that does not wait
WgDrained_NoWait(n) == TRUE

\* wg.Wait() of the run returns
WgDrained(n) == n = 0

\* (AggregateTopHeadlines is AggregateByCategories over DefaultCategories,
\* with the same return)
\* a public operation that turns a failed unit into an error
PublicReturn_Propagates(res) ==
    IF res.TotalErrors > 0
    THEN [nil |-> TRUE, report |-> EmptyReport, err |-> <<"aggregation failed">>]
    ELSE [nil |-> FALSE, report |-> res, err |-> NilErr]

\* AggregateTopHeadlines / AggregateByCategories: return result, nil
PublicReturn(res) == [nil |-> FALSE, report |-> res, err |-> NilErr]

\* AggregateBySources: return result, nil
AggregateBySourcesReturn(res) == [nil |-> FALSE, report |-> res, err |-> NilErr]

\* wg.Wait() returns and the public operation returns
Return ==
    /\ aggPc = "wait"
    /\ WgDrained(aggWg)
    /\ aggPc' = "returned"
    /\ ret' = IF IsCategoryOp(aggOp) THEN PublicReturn(result)
              ELSE AggregateBySourcesReturn(result)
    /\ UNCHANGED <<aggOp, aggUnits, aggCtx, semaphore, aggWg, aggMu, result,
                   unit, budget, schedVars, repoVars, storeVars,
                   projVars, clockVars, batchVars, laneVars>>

Workers == 1..Len(FanCategories)

\* runs of AggregateByCategories and AggregateBySources
AggNext ==
    \/ \E cs \in CatLists : AggregateByCategories(cs)
    \/ \E ss \in SourceLists : AggregateBySources(ss)
    \/ CancelRunCtx
    \/ \E i \in Workers : SemAcquire(i)
    \/ \E i \in Workers : Fetch(i)
    \/ \E i \in Workers : UnitExists(i)
    \/ \E i \in Workers : UnitInsert(i)
    \/ \E i \in Workers : MergeLock(i)
    \/ \E i \in Workers : MergeUnlock(i)
    \/ Return

\* a run of AggregateByCategories over more categories than the ceiling
FanNext ==
    \/ AggregateByCategories(FanCategories)
    \/ \E i \in Workers : SemAcquire(i)
    \/ \E i \in Workers : Fetch(i)
    \/ \E i \in Workers : UnitExists(i)
    \/ \E i \in Workers : UnitInsert(i)
    \/ \E i \in Workers : MergeLock(i)
    \/ \E i \in Workers : MergeUnlock(i)
    \/ Return

\* ====================================================== processSourceNews
\* the batches processSourceNews is called with
SourceBatches == {<<"bbc-news">>, <<"bbc-news", "cnn">>}
\* article.Source.Name of upstream articles: the display name upstream
\* sends, and names equal to a requested source
SourceNames == {"BBC News", "bbc-news", "cnn"}
NameSeqs == UNION {[1..k -> SourceNames] : k \in 0..MaxBatchArticles}
\* what CreatePostFromNewsAPI returns for an article: a post, ErrPostExists,
\* or a failed insert
CreateResults ==
    {[post |-> 1, err |-> NilErr],
     [post |-> 0, err |-> ErrPostExists],
     CreatePostFromNewsAPIInserted(RepoCreatePost({}, "u1", 1, TRUE))}

Range(f) == {f[i] : i \in DOMAIN f}

BatchInit ==
    /\ BatchIdle
    /\ SchedOff /\ StoreOff /\ AggOff /\ RepoOff /\ ProjOff /\ ClockOff /\ LaneOff

\* processSourceNews(ctx, sources) is called
ProcessSourceNews(sources) ==
    /\ srcRun.pc = "idle"
    /\ srcRun' = [NoBatch EXCEPT !.pc = "fetch", !.sources = sources]
    /\ UNCHANGED <<schedVars, storeVars, aggVars, repoVars, projVars, clockVars,
                   laneVars>>

\* GetNewsBySources fails (the function returns), or returns articles and
\* sourceStats gets an empty entry per source of the batch
BatchFetch ==
    /\ srcRun.pc = "fetch"
    /\ \/ srcRun' = [srcRun EXCEPT !.pc = "returned",
                                   !.totals.Errors = @ + 1,
                                   !.totals.Msgs = @ + 1]
       \/ \E names \in NameSeqs :
            srcRun' = [srcRun EXCEPT
                         !.pc = "loop", !.arts = names, !.k = 1,
                         !.totals.Fetched = Len(names),
                         !.sourceStats = [n \in Range(srcRun.sources) |->
                                            ZeroSourceStats]]
    /\ UNCHANGED <<schedVars, storeVars, aggVars, repoVars, projVars, clockVars,
                   laneVars>>

\* the entry of the article's source after CreatePostFromNewsAPI returned r
SourceCounted(stats, r) ==
    IF r.err # NilErr
    THEN IF r.err = ErrPostExists
         THEN [stats EXCEPT !.Duplicates = @ + 1]
         ELSE [stats EXCEPT !.Errors = @ + 1]
    ELSE IF r.post # 0
         THEN [stats EXCEPT !.Created = @ + 1, !.Fetched = @ + 1]
         ELSE stats

\* one iteration of the loop over response.Articles
BatchArticle ==
    /\ srcRun.pc = "loop"
    /\ srcRun.k <= Len(srcRun.arts)
    /\ \E r \in CreateResults :
         LET sourceName == srcRun.arts[srcRun.k]
         IN  srcRun' = [srcRun EXCEPT
                 !.k = @ + 1,
                 !.totals = CountSource(@, r),
                 !.sourceStats =
                     IF sourceName \in DOMAIN @
                     THEN [@ EXCEPT ![sourceName] = SourceCounted(@, r)]
                     ELSE @]
    /\ UNCHANGED <<schedVars, storeVars, aggVars, repoVars, projVars, clockVars,
                   laneVars>>

\* result.Sources = sourceStats; return result
BatchReturn ==
    /\ srcRun.pc = "loop"
    /\ srcRun.k > Len(srcRun.arts)
    /\ srcRun' = [srcRun EXCEPT !.pc = "returned", !.Sources = srcRun.sourceStats]
    /\ UNCHANGED <<schedVars, storeVars, aggVars, repoVars, projVars, clockVars,
                   laneVars>>

BatchNext ==
    \/ \E sources \in SourceBatches : ProcessSourceNews(sources)
    \/ BatchFetch
    \/ BatchArticle
    \/ BatchReturn

\* =========================================== overlapping aggregation runs
\* the categories of the runs: the scheduled job passes the default
\* categories (the first maxWorkers + 1 of them here), the trigger a list
\* of its own
LaneCategories(r) ==
    IF r = "job" THEN {FanCategories}
    ELSE {SubSeq(DefaultCategories, 1, n) : n \in 1..MaxTriggered}

LaneInit ==
    /\ LaneIdle
    /\ SchedOff /\ StoreOff /\ AggOff /\ RepoOff /\ ProjOff /\ ClockOff /\ BatchOff

\* aggregateByCategories: semaphore := make(chan struct{}, s.maxWorkers) and
\* one goroutine per category
LaneDispatch(r, categories) ==
    /\ lane[r].pc = "idle"
    /\ lane' = [lane EXCEPT ![r] = [pc |-> "wait", semaphore |-> 0,
                                    unit |-> [i \in DOMAIN categories |-> "queued"]]]
    /\ UNCHANGED <<schedVars, storeVars, aggVars, repoVars, projVars, clockVars,
                   batchVars>>

\* semaphore <- struct{}{} on the semaphore of the worker's own run; the
\* worker then calls upstream
LaneAcquire(r, i) ==
    /\ i \in DOMAIN lane[r].unit
    /\ lane[r].unit[i] = "queued"
    /\ SemHasRoom(lane[r].semaphore)
    /\ lane' = [lane EXCEPT ![r].semaphore = @ + 1, ![r].unit[i] = "upstream"]
    /\ UNCHANGED <<schedVars, storeVars, aggVars, repoVars, projVars, clockVars,
                   batchVars>>

\* processCategoryNews returns, the worker merges, releases the semaphore
\* of its run and calls wg.Done()
LaneRelease(r, i) ==
    /\ i \in DOMAIN lane[r].unit
    /\ lane[r].unit[i] = "upstream"
    /\ lane' = [lane EXCEPT ![r].semaphore = @ - 1, ![r].unit[i] = "done"]
    /\ UNCHANGED <<schedVars, storeVars, aggVars, repoVars, projVars, clockVars,
                   batchVars>>

\* wg.Wait() of the run returns
LaneReturn(r) ==
    /\ lane[r].pc = "wait"
    /\ \A i \in DOMAIN lane[r].unit : lane[r].unit[i] = "done"
    /\ lane' = [lane EXCEPT ![r].pc = "returned"]
    /\ UNCHANGED <<schedVars, storeVars, aggVars, repoVars, projVars, clockVars,
                   batchVars>>

LaneNext ==
    \/ \E r \in Callers : \E cs \in LaneCategories(r) : LaneDispatch(r, cs)
    \/ \E r \in Callers : \E i \in Workers : LaneAcquire(r, i)
    \/ \E r \in Callers : \E i \in Workers : LaneRelease(r, i)
    \/ \E r \in Callers : LaneReturn(r)

\* ================================================== SetupAggregationJobs
\* the task SetupAggregationJobs registers: the error it returns for what
\* the aggregator operation returned
AggregationJob(r) ==
    IF r.err # NilErr THEN Wrap("failed to aggregate news job", r.err) ELSE NilErr

\* the scheduler has started the job and its executor loop is inside
\* job.job(jobCtx), about to call the aggregator; the store is empty or
\* already holds one article
JobInit ==
    /\ AggStart(MaxFetched)
    /\ \/ posts = {} /\ nextId = 1
       \/ posts = {[id |-> 1, url |-> "u1"]} /\ nextId = 2
    /\ status = [n \in Names |-> NoStatus]
    /\ schedErr = NilErr
    /\ jobs = [n \in Names |-> IF n = FirstName THEN 1 ELSE 0]
    /\ sjob = [o \in JobIds |->
                 IF o = 1
                 THEN [StatusStarted(startJob(NewJob(FirstName, 1)))
                          EXCEPT !.execs = 1, !.started = 1]
                 ELSE NoJob]
    /\ nextJob = 2
    /\ running = TRUE
    /\ ctxDone = FALSE
    /\ wg = 1
    /\ mu = "free"
    /\ stopSaw = FALSE
    /\ RepoOff /\ ProjOff /\ ClockOff /\ BatchOff /\ LaneOff

\* the aggregator operation has returned, the task returns and executeJob
\* updates the status
JobEnd ==
    /\ aggPc = "returned"
    /\ sjob[1].execs > 0
    /\ LET failed == AggregationJob(ret) # NilErr
       IN  sjob' = [sjob EXCEPT ![1] =
                      [StatusFinished(sjob[1], failed) EXCEPT
                          !.execs = @ - 1,
                          !.failed = IF failed THEN @ + 1 ELSE @]]
    /\ UNCHANGED <<jobs, nextJob, running, ctxDone, wg, mu, stopSaw, status,
                   schedErr, storeVars, aggVars, repoVars, projVars, clockVars, batchVars, laneVars>>

JobNext == AggNext \/ JobEnd

\* ================================================ scheduledJob on the clock
\* intervals a caller of AddJob passes, in units of the clock
Intervals == {1, 2}

ClockInit ==
    /\ ClockIdle
    /\ SchedOff /\ StoreOff /\ AggOff /\ RepoOff /\ ProjOff /\ BatchOff /\ LaneOff

\* startJob: time.NewTicker(job.interval) and NextRun = time.Now() + interval
TimedStartJob(iv) ==
    /\ tjob.pc = "none"
    /\ tjob' = [NoTimed EXCEPT !.pc = "loop", !.interval = iv, !.ticker = "active",
                               !.fireAt = clock + iv, !.NextRun = Ptr(clock + iv)]
    /\ UNCHANGED <<clock, schedVars, storeVars, aggVars, repoVars, projVars, batchVars, laneVars>>

\* time passes, up to the moment the ticker fires next
TimePasses ==
    /\ clock < MaxClock
    /\ tjob.ticker = "active" => clock < tjob.fireAt
    /\ clock' = clock + 1
    /\ UNCHANGED <<tjob, schedVars, storeVars, aggVars, repoVars, projVars, batchVars, laneVars>>

\* the ticker fires: the tick goes into ticker.C, or is dropped when the
\* channel still holds one
TickerFires ==
    /\ tjob.ticker = "active"
    /\ clock = tjob.fireAt
    /\ tjob' = [tjob EXCEPT !.fireAt = @ + tjob.interval,
                            !.tickC = IF @ = Nil THEN Ptr(clock) ELSE @]
    /\ UNCHANGED <<clock, schedVars, storeVars, aggVars, repoVars, projVars, batchVars, laneVars>>

\* case <-job.ticker.C, and executeJob up to the call of the task
TimedExecBegin ==
    /\ tjob.pc = "loop"
    /\ tjob.tickC # Nil
    /\ tjob' = [tjob EXCEPT !.pc = "exec", !.trigger = tjob.tickC[1],
                            !.tickC = Nil, !.start = clock, !.RunCount = @ + 1]
    /\ UNCHANGED <<clock, schedVars, storeVars, aggVars, repoVars, projVars, batchVars, laneVars>>

\* executeJob after the task returned: LastRun = start and
\* NextRun = time.Now() + interval
TimedExecEnd ==
    /\ tjob.pc = "exec"
    /\ tjob' = [tjob EXCEPT !.pc = "loop", !.LastRun = Ptr(tjob.start),
                            !.NextRun = Ptr(clock + tjob.interval)]
    /\ UNCHANGED <<clock, schedVars, storeVars, aggVars, repoVars, projVars, batchVars, laneVars>>

ClockNext ==
    \/ \E iv \in Intervals : TimedStartJob(iv)
    \/ TimePasses
    \/ TickerFires
    \/ TimedExecBegin
    \/ TimedExecEnd

\* ===================================================== NewsAPIArticleParams
\* A *string or *time.Time is the empty sequence (nil) or a sequence of one
\* value. An instant is a number of minutes since 0001-01-01T00:00:00Z, the
\* zero value of time.Time.
TimeZero == 0

\* values of the publishedAt string of an upstream article
PublishedAts == {"2024-01-20T10:00:00Z", "2024-01-20T12:00:00+02:00",
                 "0001-01-01T00:00:00Z", "2024-01-20", "invalid-date", ""}

\* time.Parse(time.RFC3339, s): the instant and whether it failed; on
\* failure the instant is time.Time{}
timeParse(s) ==
    CASE s = "2024-01-20T10:00:00Z" -> [t |-> 1064022360, err |-> FALSE]
      [] s = "2024-01-20T12:00:00+02:00" -> [t |-> 1064022360, err |-> FALSE]
      [] s = "0001-01-01T00:00:00Z" -> [t |-> TimeZero, err |-> FALSE]
      [] OTHER -> [t |-> TimeZero, err |-> TRUE]

\* t.IsZero()
IsZero(t) == t = TimeZero

\* the upstream articles of the model
ArticleParams ==
    [name : SrcNames, author : {Nil, Ptr("John Doe")}, title : {"Test Article"},
     description : {Nil, Ptr("Test description")}, url : {"u1"},
     urlToImage : {Nil, Ptr("image.jpg")}, publishedAt : PublishedAts,
     content : {Nil, Ptr("Test content")}]

\* a projection that sets published_at to whatever instant it holds
ToPost_KeepsZero(article) ==
    [Title |-> article.title, Description |-> article.description,
     Content |-> article.content, URL |-> article.url, Source |-> article.name,
     Category |-> Nil, ImageURL |-> article.urlToImage,
     PublishedAt |-> Ptr(timeParse(article.publishedAt).t)]

\* article.ToPost()
ToPost(article) ==
    LET parsed == timeParse(article.publishedAt)
        publishedAt == IF parsed.err THEN TimeZero ELSE parsed.t
    IN  [Title |-> article.title, Description |-> article.description,
         Content |-> article.content, URL |-> article.url, Source |-> article.name,
         Category |-> Nil, ImageURL |-> article.urlToImage,
         PublishedAt |-> IF ~IsZero(publishedAt) THEN Ptr(publishedAt) ELSE Nil]

\* upstream has returned one article to a unit
ProjInit ==
    /\ proj \in {[NoProj EXCEPT !.pc = "article", !.article = Ptr(a)] : a \in ArticleParams}
    /\ StoreIdle
    /\ SchedOff /\ AggOff /\ RepoOff /\ ClockOff /\ BatchOff /\ LaneOff

\* CreatePostFromNewsAPI: the article is projected to the create request
Project ==
    /\ proj.pc = "article"
    /\ proj' = [proj EXCEPT !.pc = "projected", !.params = Ptr(ToPost(proj.article[1]))]
    /\ UNCHANGED <<schedVars, storeVars, aggVars, repoVars, clockVars, batchVars, laneVars>>

\* CreatePostFromNewsAPI: no post holds the url, repo.CreatePost stores the
\* request or fails, and the unit classifies what came back
CreateProjected ==
    /\ proj.pc = "projected"
    /\ \E fail \in BOOLEAN, op \in {"AggregateByCategories", "AggregateBySources"} :
         LET ins == RepoCreatePost({}, proj.params[1].URL, 1, fail)
             r == CreatePostFromNewsAPIInserted(ins)
         IN  proj' = [proj EXCEPT
                 !.pc = "counted",
                 !.stored = IF ins.err = NilErr THEN <<proj.params[1]>> ELSE <<>>,
                 !.stats = Count(op, proj.stats, r)]
    /\ UNCHANGED <<schedVars, storeVars, aggVars, repoVars, clockVars, batchVars, laneVars>>

ProjNext == Project \/ CreateProjected

\* ========================================================== specifications
SpecSched == SchedOnlyInit /\ [][SchedNext]_vars

SpecStatus == SchedOnlyInit /\ [][StatusNext]_vars

SpecReentrant == SchedOnlyInit /\ [][ReentrantNext]_vars

\* the scheduler under fair scheduling: the runtime timer of an active ticker
\* fires, a goroutine that can run does (the executor loop's select, the
\* wg.Wait() of Stop), and a task whose context is cancelled returns
FairSched ==
    /\ SchedOnlyInit
    /\ [][FairNext]_vars
    /\ \A o \in JobIds : /\ WF_schedVars(Tick(o))
                         /\ WF_schedVars(ExecBegin(o))
                         /\ WF_schedVars(ctxDone /\ ExecEnd(o))
                         /\ WF_schedVars(LoopExit(o))
    /\ WF_schedVars(StopReturn)

SpecStore == StoreOnlyInit /\ [][StoreNext]_vars

SpecRepo == RepoInit /\ [][RepoNext]_vars

SpecRepoSeq == RepoInit /\ [][SeqNext]_vars

SpecDelete == RepoInit /\ [][DeleteNext]_vars

SpecAgg == AggInit /\ [][AggNext]_vars

SpecRestart == RestartInit /\ [][SchedNext]_vars

SpecUnchecked == SchedOnlyInit /\ [][UncheckedNext]_vars

SpecJob == JobInit /\ [][JobNext]_vars

SpecBatch == BatchInit /\ [][BatchNext]_vars

SpecLanes == LaneInit /\ [][LaneNext]_vars

SpecProject == ProjInit /\ [][ProjNext]_vars

SpecClock == ClockInit /\ [][ClockNext]_vars

SpecFan == FanInit /\ [][FanNext]_vars

\* ------------------------------------------------------------------ C1
\* C1: the step in which Stop returns (it releases s.mu after wg.Wait())
\* leads to a state with no task executing, no executor loop live (loops of
\* replaced and removed jobs included) and running = FALSE.
C1_StopDrains ==
    [][(mu = "stop" /\ mu' = "free")
         => (~running' /\ LiveLoops' = {} /\ Executing' = {})]_vars

\* Stop has returned; it had found a task executing, and the loop of a job
\* that is no longer in the table (replaced or removed) has run and exited.
C1_Witness ==
    /\ ~running /\ mu = "free" /\ stopSaw
    /\ \E o \in Allocated :
         /\ \A n \in Names : jobs[n] # o
         /\ sjob[o].RunCount > 0
         /\ sjob[o].loops = 0

\* ------------------------------------------------------------------ C2
\* C2 as stated: for every job name at most one execution registered under
\* that name is in flight, re-registration during an execution included.
ExecutionsOf(name) == {o \in JobIds : sjob[o].name = name /\ sjob[o].execs > 0}

C2_OnePerName == \A n \in Names : Cardinality(ExecutionsOf(n)) <= 1

\* C2 amended: every registration (scheduledJob object) has at most one
\* executor loop and at most one execution in flight; under one name only
\* executions of different registrations overlap, and of these at most one
\* belongs to the registration now in the table.
C2_OnePerRegistration ==
    \A o \in JobIds : sjob[o].loops <= 1 /\ sjob[o].execs <= 1

\* the replaced registration of a name and its replacement both execute
C2_Witness ==
    \E n \in Names : \E o \in ExecutionsOf(n) :
        /\ jobs[n] # 0 /\ jobs[n] # o
        /\ jobs[n] \in ExecutionsOf(n)

\* ------------------------------------------------------------------ C3
\* C3: no two rows of the posts table have the same url.
C3_UrlUnique == \A p \in posts, q \in posts : p.url = q.url => p.id = q.id

\* two callers passed the existence check for one url, one of them has
\* inserted it and the other one's insert was refused
C3_Witness ==
    \E c \in Clients, d \in Clients :
        /\ c # d /\ client[c].url = client[d].url
        /\ client[c].pc = "idle" /\ client[c].inserted
        /\ client[d].pc = "idle" /\ client[d].held /\ ~client[d].inserted
        /\ errorsIs(client[d].err, ErrUniqueViolation)

\* ------------------------------------------------------------------ C4
\* C4: a CreatePost call whose url a stored post holds returns ErrPostExists
\* and inserts nothing, whether the calls are sequential or concurrent.
C4_DuplicateIsTyped ==
    \A c \in Clients :
        (client[c].pc = "idle" /\ client[c].method = "CreatePost" /\ client[c].held)
            => (client[c].err = ErrPostExists /\ ~client[c].inserted)

\* ------------------------------------------------------------------ C5
FailedUnits == {i \in DOMAIN unit : unit[i].upErr}

Counted(r) == r.TotalCreated + r.TotalDuplicates + r.TotalErrors

\* C5 as stated: in every report created + duplicates + errors is at most
\* fetched, a unit whose upstream call failed included.
C5_CountedWithinFetched ==
    aggPc = "returned" => Counted(ret.report) <= ret.report.TotalFetched

\* C5 amended: created + duplicates + errors is at most fetched plus the
\* number of units whose upstream call failed (each such unit counts one
\* error and fetches nothing); with no failed upstream call it is at most
\* fetched.
C5_CountedWithinFetchedAndFailed ==
    aggPc = "returned" =>
        Counted(ret.report) <= ret.report.TotalFetched + Cardinality(FailedUnits)

\* a report of a run in which one unit's upstream call failed and another
\* unit created a post
C5_Witness ==
    /\ aggPc = "returned"
    /\ FailedUnits # {}
    /\ ret.report.TotalCreated > 0
    /\ Counted(ret.report) = ret.report.TotalFetched + 1

\* ------------------------------------------------------------------ C6
RECURSIVE SumOver(_, _)
SumOver(f, n) == IF n = 0 THEN ZeroStats
                 ELSE LET s == SumOver(f, n - 1)
                      IN  [Fetched |-> s.Fetched + f[n].stats.Fetched,
                           Created |-> s.Created + f[n].stats.Created,
                           Duplicates |-> s.Duplicates + f[n].stats.Duplicates,
                           Errors |-> s.Errors + f[n].stats.Errors,
                           Msgs |-> 0]

\* C6: each total of the returned report is the sum of that field over the
\* stats of all dispatched units, whatever the interleaving of the workers.
C6_TotalsAreSums ==
    aggPc = "returned" =>
        [Totals(ret.report) EXCEPT !.Msgs = 0] = SumOver(unit, Len(unit))

\* a report of two units that both fetched an article and both counted
\* something else as well
C6_Witness ==
    /\ aggPc = "returned"
    /\ Len(unit) = 2
    /\ \A i \in DOMAIN unit :
         /\ unit[i].stats.Fetched > 0
         /\ unit[i].stats.Created + unit[i].stats.Errors > 0
    /\ ret.report.TotalFetched = 2

\* ------------------------------------------------------------------ C7
\* workers between the semaphore send and the end of their merge
InFlight == {i \in DOMAIN unit : unit[i].pc \in {"fetch", "exists", "insert", "merge", "locked"}}

\* C7: at most maxWorkers (5) units are between acquiring the semaphore and
\* finishing their merge, so at most 5 upstream calls with their create
\* loops are in progress.
C7_AtMostFiveInFlight == Cardinality(InFlight) <= maxWorkers

\* five units are in flight, one of them in its create loop, and the sixth
\* waits for the semaphore
C7_Witness ==
    /\ Cardinality(InFlight) = maxWorkers
    /\ \E i \in DOMAIN unit : unit[i].pc = "queued"
    /\ \E i \in DOMAIN unit : unit[i].pc = "insert"

\* ------------------------------------------------------------------ C8
Requested == {aggUnits[i] : i \in DOMAIN aggUnits}

\* C8: a category aggregation has returned only when every dispatched unit
\* has merged, cancelled context and failed units included; the per-category
\* map then has exactly the requested categories as keys (none for an empty
\* list).
C8_ReturnsAfterAllMerged ==
    (aggPc = "returned" /\ IsCategoryOp(aggOp)) =>
        /\ \A i \in DOMAIN unit : unit[i].pc = "done"
        /\ DOMAIN ret.report.Categories = Requested

\* a run over two categories has returned; its context was cancelled and a
\* unit failed
C8_Witness ==
    /\ aggPc = "returned" /\ IsCategoryOp(aggOp)
    /\ aggCtx
    /\ Cardinality(Requested) = 2
    /\ FailedUnits # {}
    /\ ret.report.TotalFetched > 0

\* ------------------------------------------------------------------ C9
\* C9: the public aggregation operations return a non-nil report and a nil
\* error whatever failed; failures show only as counts in the report.
C9_ReportAndNilError ==
    aggPc = "returned" => (~ret.nil /\ ret.err = NilErr)

\* a run has returned after its context was cancelled, an upstream call
\* failed and a create failed
C9_Witness ==
    /\ aggPc = "returned"
    /\ aggCtx
    /\ FailedUnits # {}
    /\ ret.report.TotalErrors >= 2
    /\ ret.report.TotalFetched > 0

\* ----------------------------------------------------------------- C10
\* C10: in category aggregation every fetched article with a source name
\* increments exactly one of created, duplicates, errors, and duplicates
\* counts the articles whose url the post store already held.
C10_EachArticleCounted ==
    \A i \in DOMAIN unit :
        (IsCategoryOp(aggOp) /\ unit[i].pc = "done" /\ ~unit[i].upErr) =>
            /\ unit[i].stats.Created + unit[i].stats.Duplicates + unit[i].stats.Errors
                   = unit[i].named
            /\ unit[i].stats.Duplicates = unit[i].held

\* ----------------------------------------------------------------- C11
\* C11: for every job, in every reachable state, run_count is the number of
\* its executions that have started, error_count the number of its completed
\* executions that returned an error, and error_count <= run_count.
C11_CountsMatch ==
    \A o \in JobIds :
        /\ sjob[o].RunCount = sjob[o].started
        /\ sjob[o].ErrorCount = sjob[o].failed
        /\ sjob[o].ErrorCount <= sjob[o].RunCount

\* a registered job has started two executions, one has failed and one is
\* still in flight
C11_Witness ==
    \E n \in Names :
        /\ jobs[n] # 0
        /\ sjob[jobs[n]].RunCount = 2
        /\ sjob[jobs[n]].ErrorCount = 1
        /\ sjob[jobs[n]].execs = 1

\* ----------------------------------------------------------------- C12
\* C12: every record GetJobStatus returned is the job's status at one instant
\* outside any status update (is_running is true in it iff an execution
\* counted in run_count had not completed), under any interleaving with
\* AddJob and executing jobs; and changing the returned map or records never
\* changes scheduler state: the scheduler's records never hold a value a
\* caller wrote.
C12_SnapshotWholeAndIsolated ==
    /\ \A n \in Names :
         status[n].present => (status[n].IsRunning <=> status[n].inflight = 1)
    /\ \A o \in JobIds : sjob[o].NextRun # "written"

\* ----------------------------------------------------------------- C13
\* the step of an AddJob that replaces a registered job
Replaces(o) == \E n \in Names : jobs[n] = o /\ jobs'[n] # o /\ jobs'[n] # 0

\* C13: after AddJob re-registers a name, the previous task begins at most
\* one further execution; the replacing step itself leaves an execution of
\* the previous task in flight, with its context not cancelled and its
\* executor loop alive, so that it runs to completion.
C13_ReplacedRunsAtMostOnceMore ==
    /\ [](\A o \in JobIds : sjob[o].dropped = "replaced" => sjob[o].late <= 1)
    /\ [][\A o \in JobIds :
            Replaces(o) => /\ sjob'[o].execs = sjob[o].execs
                           /\ sjob'[o].loops = sjob[o].loops
                           /\ sjob'[o].IsRunning = sjob[o].IsRunning
                           /\ ctxDone' = ctxDone]_vars

\* a job was replaced on a running scheduler while its task was executing
\* (the execution had begun before the replacement and has completed), its
\* task has begun one more execution since, and the new task has not run yet
C13_Witness ==
    \E n \in Names, o \in JobIds :
        /\ jobs[n] # 0 /\ jobs[n] # o
        /\ sjob[o].name = n
        /\ sjob[o].dropped = "replaced"
        /\ sjob[o].RunCount = 2
        /\ sjob[o].late = 1
        /\ sjob[o].execs = 0
        /\ sjob[jobs[n]].loops = 1

\* ----------------------------------------------------------------- C14
\* C14: after RemoveJob(name) returned, the name is absent from the job
\* table that GetJobStatus reads and no further execution of the removed
\* job's task begins.
C14_RemovedNeverBegins ==
    \A o \in JobIds :
        sjob[o].dropped = "removed" =>
            /\ \A n \in Names : jobs[n] # o
            /\ sjob[o].late = 0

\* ----------------------------------------------------------------- C15
\* C15: a Start on a running scheduler changes nothing (no executor loop is
\* spawned, the start context is kept, IsRunning stays true), a Stop on a
\* scheduler that is not running changes nothing, and both return nil.
C15_StartStopIdempotent ==
    /\ [][(running /\ Start) => UNCHANGED vars]_vars
    /\ [][(~running /\ StopBegin) => UNCHANGED vars]_vars
    /\ [](schedErr = NilErr)

\* the scheduler is running, the start context is live and a job's executor
\* loop is inside its task: the state a second Start must leave as it is
C15_Witness ==
    /\ running /\ ~ctxDone /\ mu = "free"
    /\ \E n \in Names : jobs[n] # 0 /\ sjob[jobs[n]].loops = 1
                                    /\ sjob[jobs[n]].execs = 1

\* ----------------------------------------------------------------- C16
\* the scheduledJob is the one s.jobs holds under its name
InTable(o) == \E n \in Names : jobs[n] = o

\* an execution of o completes with an error in this step
Fails(o) == sjob'[o].failed > sjob[o].failed

\* C16: when a task returns an error its executor loop stays live with its
\* ticker as it was, the record of no other job changes in that step, Start
\* and Stop return nil, and a later tick that reaches the loop of a job that
\* has failed starts another execution of it, unless the start context is
\* cancelled or the job is replaced or removed first.
C16_FailureIsContained ==
    /\ [][\A o \in JobIds :
            Fails(o) => /\ sjob'[o].loops = sjob[o].loops
                        /\ sjob'[o].loops > 0
                        /\ sjob'[o].ticker = sjob[o].ticker
                        /\ sjob'[o].LastError # ""
                        /\ \A p \in JobIds \ {o} : sjob'[p] = sjob[p]
                        /\ UNCHANGED <<jobs, running, ctxDone, wg, schedErr>>]_vars
    /\ [](schedErr = NilErr)
    /\ \A o \in JobIds :
          (sjob[o].failed > 0 /\ sjob[o].execs = 0 /\ sjob[o].tickC
               /\ InTable(o) /\ ~ctxDone)
            ~> (sjob[o].execs > 0 \/ ctxDone \/ ~InTable(o))

\* a job whose task failed is executing again while another job, which has
\* run without error, is registered next to it
C16_Witness ==
    \E o \in JobIds, p \in JobIds :
        /\ o # p /\ InTable(o) /\ InTable(p)
        /\ sjob[o].failed = 1 /\ sjob[o].execs = 1 /\ sjob[o].RunCount = 2
        /\ sjob[p].RunCount = 1 /\ sjob[p].ErrorCount = 0 /\ sjob[p].execs = 0
        /\ running /\ ~ctxDone

\* ----------------------------------------------------------------- C17
\* the model has executions left to begin
BudgetLeft == SumRuns(JobIds) < MaxRuns

C18_StopReturns ==
    /\ (mu = "stop") ~> (mu = "free" /\ ~running /\ LiveLoops = {})
    /\ [][\A o \in JobIds :
            sjob'[o].execs < sjob[o].execs
               => /\ sjob[o].IsRunning /\ ~sjob'[o].IsRunning
                  /\ sjob'[o].loops = sjob[o].loops
                  /\ sjob'[o].loops > 0
                  /\ UNCHANGED <<ctxDone, wg, mu, running>>]_vars

\* Stop has cancelled the context and waits while two tasks are in flight
C18_Witness ==
    /\ mu = "stop" /\ ctxDone /\ running
    /\ Cardinality(Executing) = 2
    /\ wg = 2

\* ----------------------------------------------------------------- C19
\* the UPDATE of caller c writes its row in this step
Writes(c) == repoCall[c].pc = "upd_db" /\ repoCall'[c].pc = "upd_inv"

\* the fields an update must leave alone are the same in both rows
SameFrame(old, new) ==
    /\ new.id = old.id
    /\ new.url = old.url
    /\ new.source = old.source
    /\ new.published_at = old.published_at
    /\ new.created_at = old.created_at

C20_DeletedIsNotFound ==
    \A c \in Clients :
        (repoCall[c].pc = "done" /\ repoCall[c].method = "GetPostByID"
            /\ repoCall[c].after)
          => (repoCall[c].err # NilErr /\ repoCall[c].post = NoRow)

\* ----------------------------------------------------------------- C21
\* an unfiltered ListPosts, a CountPosts of caller c has returned
Listed(c) == repoCall[c].pc = "done" /\ repoCall[c].method = "ListPosts"
Counted21(c) == repoCall[c].pc = "done" /\ repoCall[c].method = "CountPosts"

C22_ReadsAfterInvalidation ==
    \A c \in Clients :
        (repoCall[c].pc = "done" /\ repoCall[c].clean) =>
            /\ repoCall[c].method = "GetPostByID"
                  => /\ repoCall[c].post = postsById[repoCall[c].id]
                     /\ (repoCall[c].err = NilErr <=> postsById[repoCall[c].id] # NoRow)
            /\ repoCall[c].method = "ListPosts"
                  => repoCall[c].rows = ListPage(postsById, repoCall[c].page)

\* ----------------------------------------------------------------- C23
\* C23: a CreatePost whose url lookup failed with an error other than "no
\* rows" returns an error that is not ErrPostExists and inserts nothing.
C23_LookupFailureIsNotDuplicate ==
    \A c \in Clients :
        (client[c].pc = "idle" /\ client[c].method = "CreatePost" /\ client[c].infra)
            => /\ client[c].err # NilErr
               /\ ~errorsIs(client[c].err, ErrPostExists)
               /\ ~client[c].inserted

\* ----------------------------------------------------------------- C24
\* C24: a DeletePost of the service with a valid id that removes no row
\* returns ErrPostNotFound, also when it loses against a concurrent
\* DeletePost of the same post.
C24_NothingDeletedIsNotFound ==
    \A c \in Clients :
        (/\ repoCall[c].pc = "done"
         /\ repoCall[c].method = "service.DeletePost"
         /\ repoCall[c].id > 0
         /\ ~repoCall[c].visible)
            => repoCall[c].err = ErrPostNotFound

\* ----------------------------------------------------------------- C25
\* C25: the report of a finished run holds a message in its error list for
\* every failure counted in its error total, in the category path and in the
\* source path; a positive error total comes with a non-empty error list.
C25_ErrorsAreRecorded ==
    aggPc = "returned" => ret.report.Errors >= ret.report.TotalErrors

\* ----------------------------------------------------------------- C26
\* articles of the unit counted as created, duplicate or failed create
CreateCounted(u) ==
    u.stats.Created + u.stats.Duplicates + u.stats.Errors - (IF u.upErr THEN 1 ELSE 0)

\* C26: in both paths an article with an empty source.name is counted in
\* fetched only: each unit counts at most its named articles in created,
\* duplicates and errors.
C26_UnnamedIsSkipped ==
    \A i \in DOMAIN unit :
        /\ CreateCounted(unit[i]) <= unit[i].named
        /\ unit[i].named <= unit[i].stats.Fetched

\* ----------------------------------------------------------------- C27
RECURSIVE Flatten(_)
Flatten(bs) == IF bs = <<>> THEN <<>> ELSE Head(bs) \o Flatten(Tail(bs))

\* the least number of batches of batchSize that hold n sources
CeilBatches(n) == (n + batchSize - 1) \div batchSize

\* C27: AggregateBySources over n sources starts ceil(n/3) units, whose
\* batches of 1 to 3 sources are the input cut in order, and each unit has
\* made exactly one upstream call when the run returns.
C27_OneCallPerBatch ==
    /\ [][\A ss \in SourceLists :
            AggregateBySources(ss) =>
                /\ Len(aggUnits') = CeilBatches(Len(ss))
                /\ Flatten(aggUnits') = ss
                /\ \A i \in DOMAIN aggUnits' : Len(aggUnits'[i]) \in 1..batchSize]_vars
    /\ []((aggPc = "returned" /\ ~IsCategoryOp(aggOp))
            => \A i \in DOMAIN unit : unit[i].calls = 1)

C27_Witness ==
    /\ aggPc = "returned"
    /\ aggOp = "AggregateBySources"
    /\ Len(aggUnits) = 2
    /\ Len(aggUnits[1]) = batchSize
    /\ Len(aggUnits[2]) = 1
    /\ \A i \in DOMAIN unit : unit[i].calls = 1

\* ----------------------------------------------------------------- C28
\* C28: once the context of the run is cancelled, no queued unit is admitted
\* by the semaphore.
C28_NoAdmissionAfterCancel ==
    [][\A i \in DOMAIN unit :
          (aggCtx /\ unit[i].pc = "queued" /\ i \in DOMAIN unit')
              => unit'[i].pc = "queued"]_vars

\* ----------------------------------------------------------------- C29
\* the publishedAt of the article under way is not a valid RFC-3339 string
BadPublishedAt == proj.pc # "idle" /\ timeParse(proj.article[1].publishedAt).err

\* C29: an article whose publishedAt does not parse is projected with
\* published_at absent and its other fields copied, and when the store
\* accepts the request the unit counts it as created and not as an error.
C29_BadDateIsCreated ==
    /\ (BadPublishedAt /\ proj.pc \in {"projected", "counted"})
         => LET a == proj.article[1]
                p == proj.params[1]
            IN  /\ p.PublishedAt = Nil
                /\ p.Title = a.title /\ p.Description = a.description
                /\ p.Content = a.content /\ p.URL = a.url
                /\ p.Source = a.name /\ p.ImageURL = a.urlToImage
    /\ (BadPublishedAt /\ proj.pc = "counted" /\ proj.stored # <<>>)
         => /\ proj.stats.Created = 1
            /\ proj.stats.Errors = 0
            /\ proj.stored[1].PublishedAt = Nil

C29_Witness ==
    /\ proj.pc = "counted"
    /\ proj.article[1].publishedAt = "invalid-date"
    /\ proj.stored # <<>>
    /\ proj.stats.Created = 1

\* ----------------------------------------------------------------- C30
\* C30: after each completed execution of a job, its NextRun is the time of
\* the tick that triggered the execution plus the interval of the job.
C30_NextRunIsTickPlusInterval ==
    (tjob.pc = "loop" /\ tjob.RunCount > 0)
        => tjob.NextRun = Ptr(tjob.trigger + tjob.interval)

\* ----------------------------------------------------------------- C31
\* C31: the step that completes an execution leaves LastError empty when the
\* task returned nil and set to the message when it returned an error, adds
\* one to ErrorCount exactly in the second case, and leaves IsRunning false.
C31_CompletionSetsStatus ==
    [][\A o \in JobIds :
          sjob'[o].execs < sjob[o].execs
             => /\ ~sjob'[o].IsRunning
                /\ Fails(o) => /\ sjob'[o].LastError = "task failed"
                               /\ sjob'[o].ErrorCount = sjob[o].ErrorCount + 1
                /\ ~Fails(o) => /\ sjob'[o].LastError = ""
                                /\ sjob'[o].ErrorCount = sjob[o].ErrorCount]_vars

\* a job whose first execution failed and whose second succeeded
C31_Witness ==
    \E o \in JobIds :
        /\ sjob[o].RunCount = 2 /\ sjob[o].execs = 0
        /\ sjob[o].failed = 1 /\ sjob[o].ErrorCount = 1
        /\ sjob[o].LastError = "" /\ ~sjob[o].IsRunning

\* ----------------------------------------------------------------- C32
\* Stop waits for its drain while a task waits for the lock Stop holds
Stuck == mu = "stop" /\ \E o \in JobIds : sjob[o].blocked

\* C32: from the step in which Stop takes s.mu until it returns, which is
\* not before every executor loop has exited, no Start, AddJob or RemoveJob
\* call completes; and once a task waits in a call of IsRunning or
\* GetJobStatus while Stop drains, the task stays waiting and Stop never
\* returns.
C32_StopHoldsLock ==
    /\ [][mu = "stop" =>
            ~(\/ Start
              \/ \E n \in Names : AddJob(n) \/ RemoveJob(n))]_vars
    /\ [][(mu = "stop" /\ mu' = "free") => LiveLoops = {}]_vars
    /\ [][Stuck => Stuck']_vars

\* Stop drains while the task of the only live loop waits for the lock
C32_Witness ==
    /\ Stuck
    /\ wg = 1
    /\ ctxDone
    /\ \E o \in JobIds : sjob[o].blocked /\ sjob[o].execs = 1 /\ sjob[o].loops = 1

\* ----------------------------------------------------------------- C33
\* C33: s.running changes only in a Start that finds it false and in the
\* return of Stop; the cancellation of the context handed to Start and the
\* exit of the executor loops leave it true; while it is true a Start starts
\* no loop and the cancelled context stays, until Stop has returned and
\* Start is called again.
C33_RunningOnlyByStartStop ==
    /\ [][running' # running =>
            \/ ~running /\ Start
            \/ running /\ StopReturn]_vars
    /\ [][(ctxDone /\ ~ctxDone') => (~running /\ Start)]_vars
    /\ [][(running /\ Start) => UNCHANGED <<sjob, wg, ctxDone>>]_vars

\* the scheduler reports running, its context was cancelled by its owner,
\* and the loop of the job in its table, which has run, has exited
C33_Witness ==
    /\ running /\ ctxDone /\ mu = "free"
    /\ LiveLoops = {}
    /\ \E n \in Names : jobs[n] # 0 /\ sjob[jobs[n]].started > 0

\* ----------------------------------------------------------------- C34
\* C34: a job of SetupAggregationJobs records no failure: its ErrorCount
\* stays 0 and its LastError stays empty, whatever the units of the run did
\* and whether or not its context was cancelled.
C34_AggregationJobNeverFails ==
    sjob[1].ErrorCount = 0 /\ sjob[1].LastError = "" /\ sjob[1].failed = 0

\* the execution has completed after a cancelled run that counted errors
C34_Witness ==
    /\ aggPc = "returned" /\ aggCtx
    /\ ret.report.TotalErrors > 0
    /\ sjob[1].execs = 0 /\ sjob[1].RunCount = 1 /\ ~sjob[1].IsRunning
    /\ sjob[1].ErrorCount = 0

\* ----------------------------------------------------------------- C35
RECURSIVE SumEntries(_, _)
SumEntries(m, keys) ==
    IF keys = {} THEN ZeroSourceStats
    ELSE LET k == CHOOSE x \in keys : TRUE
             rest == SumEntries(m, keys \ {k})
         IN  [Fetched |-> m[k].Fetched + rest.Fetched,
              Created |-> m[k].Created + rest.Created,
              Duplicates |-> m[k].Duplicates + rest.Duplicates,
              Errors |-> m[k].Errors + rest.Errors]

Attributed(n) == {j \in DOMAIN srcRun.arts : srcRun.arts[j] = n}

\* C35: in a source report every per-source entry counts in Fetched each
\* article attributed to the source, so Created + Duplicates + Errors <=
\* Fetched, and the per-source Created, Duplicates and Errors sum to the
\* totals of the report.
C35_PerSourceCountsEveryArticle ==
    (srcRun.pc = "returned" /\ srcRun.totals.Msgs = 0) =>
        /\ \A n \in DOMAIN srcRun.Sources :
              /\ srcRun.Sources[n].Fetched = Cardinality(Attributed(n))
              /\ srcRun.Sources[n].Created + srcRun.Sources[n].Duplicates
                   + srcRun.Sources[n].Errors <= srcRun.Sources[n].Fetched
        /\ LET sum == SumEntries(srcRun.Sources, DOMAIN srcRun.Sources)
           IN  /\ sum.Created = srcRun.totals.Created
               /\ sum.Duplicates = srcRun.totals.Duplicates
               /\ sum.Errors = srcRun.totals.Errors

\* ----------------------------------------------------------------- C36
\* C36: RemoveJob and AddJob never end an executor loop, a loop ends only
\* once the start context is cancelled, and while the scheduler runs with a
\* live context every startJob since Start has its loop: the live loops are
\* as many as the WaitGroup counts, AddJob adds one and RemoveJob none.
\* (s.jobs changes in AddJob and RemoveJob only, nextJob in AddJob only)
C36_LoopsOutliveRemoval ==
    [][/\ jobs' # jobs => LiveLoops \subseteq LiveLoops'
       /\ ~(LiveLoops \subseteq LiveLoops') => ctxDone
       /\ (running /\ ~ctxDone) =>
            /\ Cardinality(LiveLoops) = wg
            /\ nextJob' # nextJob =>
                  Cardinality(LiveLoops') = Cardinality(LiveLoops) + 1]_vars

\* a running scheduler with one job in its table and two live loops: the
\* loop of the replaced job waits on its stopped ticker
C36_Witness ==
    /\ running /\ ~ctxDone /\ mu = "free"
    /\ Cardinality({n \in Names : jobs[n] # 0}) = 1
    /\ Cardinality(LiveLoops) = 2
    /\ \E o \in JobIds : /\ sjob[o].dropped = "replaced"
                          /\ sjob[o].ticker = "stopped"
                          /\ sjob[o].loops = 1

C38_UncheckedJobIsHarmless == ~Panicked

\* ----------------------------------------------------------------- C39
\* C39: in a returned category report each total is the sum of that field
\* over the entries of the per-category map, for every category list, one
\* that names a category twice included.
C39_TotalsAreMapSums ==
    (aggPc = "returned" /\ IsCategoryOp(aggOp)) =>
        LET sum == SumEntries(ret.report.Categories, DOMAIN ret.report.Categories)
        IN  /\ ret.report.TotalFetched = sum.Fetched
            /\ ret.report.TotalCreated = sum.Created
            /\ ret.report.TotalDuplicates = sum.Duplicates
            /\ ret.report.TotalErrors = sum.Errors

\* ----------------------------------------------------------------- C40
\* workers of any run that hold a semaphore slot and are calling upstream
Upstream == {<<r, i>> \in Callers \X Workers :
                i \in DOMAIN lane[r].unit /\ lane[r].unit[i] = "upstream"}

\* C40: whatever runs overlap, at most maxWorkers (5) units are calling
\* upstream at once in the whole process.
C40_FiveAcrossRuns == Cardinality(Upstream) <= maxWorkers

====
